---------------------------- MODULE Spec2Model ----------------------------
(***************************************************************************)
(* A model of the Excel -> MariaDB converter                               *)
(* (excel_mariadb_converter.py): the ExcelAnalyzer pipeline                *)
(* (read_excel_file, key and relationship detection, analyze_structure),   *)
(* the MariaDBManager (create_tables, insert_data) and the two endpoints   *)
(* upload_excel (Migrate) and analyze_excel (Analyze).                     *)
(*                                                                         *)
(* Names are sequences of one-character strings, so that cleaning,         *)
(* suffix and substring tests are computed as the code computes them.      *)
(* A cell is a record [k, n, s]: k is "null", "int" or "str".              *)
(***************************************************************************)
EXTENDS Integers, Sequences, FiniteSets, TLC

(***************************************************************************)
(* Bounds of the model.                                                    *)
(***************************************************************************)
MaxSheets == 2
MaxCols == 2
MaxRows == 2
MaxVal == 2
MaxRuns == 2
MaxFaults == 1

(***************************************************************************)
(* Generic helpers on sequences.                                           *)
(***************************************************************************)
Range(s) == {s[i] : i \in 1..Len(s)}

RECURSIVE SelectIdx(_, _, _)
\* the subsequence of s at the indices i (in order) for which keep[i] holds
SelectIdx(s, keep, i) ==
    IF i > Len(s) THEN <<>>
    ELSE (IF keep[i] THEN <<s[i]>> ELSE <<>>) \o SelectIdx(s, keep, i + 1)

EndsWith(s, suf) ==
    /\ Len(s) >= Len(suf)
    /\ SubSeq(s, Len(s) - Len(suf) + 1, Len(s)) = suf

\* Python's `sub in s` on strings
Contains(s, sub) ==
    \E i \in 1..(Len(s) - Len(sub) + 1) : SubSeq(s, i, i + Len(sub) - 1) = sub

RECURSIVE SumSeq(_)
SumSeq(s) == IF s = <<>> THEN 0 ELSE Head(s) + SumSeq(Tail(s))

(***************************************************************************)
(* Characters.                                                             *)
(***************************************************************************)
UpperChars == <<"A","B","C","D","E","F","G","H","I","J","K","L","M",
                "N","O","P","Q","R","S","T","U","V","W","X","Y","Z">>
LowerChars == <<"a","b","c","d","e","f","g","h","i","j","k","l","m",
                "n","o","p","q","r","s","t","u","v","w","x","y","z">>
DigitChars == <<"0","1","2","3","4","5","6","7","8","9">>

IsDigitChar(c) == c \in Range(DigitChars)

\* [a-zA-Z0-9_]
IsWordChar(c) ==
    c \in Range(UpperChars) \cup Range(LowerChars) \cup Range(DigitChars) \cup {"_"}

\* str.lower() on one character
LowerChar(c) ==
    IF c \in Range(UpperChars)
    THEN LowerChars[CHOOSE i \in 1..26 : UpperChars[i] = c]
    ELSE c

LowerStr(s) == [i \in 1..Len(s) |-> LowerChar(s[i])]

\* re.sub(r'[^a-zA-Z0-9_]', '_', s)
SubNonWord(s) == [i \in 1..Len(s) |-> IF IsWordChar(s[i]) THEN s[i] ELSE "_"]

\* str(n) for an integer n
RECURSIVE NatStr(_)
NatStr(n) ==
    IF n < 10 THEN <<DigitChars[n + 1]>>
    ELSE NatStr(n \div 10) \o <<DigitChars[(n % 10) + 1]>>

IntStr(n) == IF n < 0 THEN <<"-">> \o NatStr(0 - n) ELSE NatStr(n)

(***************************************************************************)
(* ExcelAnalyzer._clean_table_name / _clean_column_name.                   *)
(* `raw` is str(name); a column whose name is NaN is the raw value NaNName *)
(***************************************************************************)
NaNName == <<"\\NaN">>

T_prefix == <<"t","a","b","l","e","_">>
C_prefix == <<"c","o","l","_">>
UnnamedColumn == <<"u","n","n","a","m","e","d","_","c","o","l","u","m","n">>

\* raises IndexError on the empty string (clean_name[0]): modelled by the
\* guard CleanNameRaises
CleanNameRaises(raw) == raw = <<>>

\* _clean_table_name without the prefix of lines 74-75
_clean_table_name_NoPrefix(raw) == LowerStr(SubNonWord(raw))

_clean_table_name(raw) ==
    LET clean_name == SubNonWord(raw)
    IN  LowerStr(IF IsDigitChar(clean_name[1]) THEN T_prefix \o clean_name
                 ELSE clean_name)

_clean_column_name(raw) ==
    IF raw = NaNName THEN UnnamedColumn
    ELSE LET clean_name == SubNonWord(raw)
         IN  LowerStr(IF IsDigitChar(clean_name[1]) THEN C_prefix \o clean_name
                      ELSE clean_name)


(***************************************************************************)
(* Cells, series and data frames as pandas holds them.                     *)
(***************************************************************************)
NullCell == [k |-> "null", n |-> 0, s |-> <<>>]
IntCell(v) == [k |-> "int", n |-> v, s |-> <<>>]
StrCell(t) == [k |-> "str", n |-> 0, s |-> t]

\* a 64-bit integer outside the 32-bit range: its value is w * 2^32 + n,
\* with n the signed low word; the cells of IntCell have the high word 0
WideCell(w, v) == [k |-> "int", n |-> v, s |-> <<>>, w |-> w]

High(c) == IF "w" \in DOMAIN c THEN c.w ELSE 0

isna(c) == c.k = "null"

\* the dtype pd.read_excel gives a column: integers without a missing cell
\* are int64, integers with a missing cell (and an all-empty column) are
\* float64, anything holding a string is object
PandasDtype(cells) ==
    IF \E i \in 1..Len(cells) : cells[i].k = "str" THEN "object"
    ELSE IF \E i \in 1..Len(cells) : isna(cells[i]) THEN "float64"
    ELSE "int64"

\* a data frame: column labels, column dtypes and the rows (each row one
\* cell per column)
Frame(columns, dtypes, rows) ==
    [columns |-> columns, dtypes |-> dtypes, rows |-> rows]

NCols(df) == Len(df.columns)
NRows(df) == Len(df.rows)

\* df.iloc[:, c] as a series: its dtype and its cells in row order
ColumnAt(df, c) ==
    [dtype |-> df.dtypes[c], cells |-> [r \in 1..NRows(df) |-> df.rows[r][c]]]

\* the positions of the columns labelled `name`
ColPositions(df, name) == {c \in 1..NCols(df) : df.columns[c] = name}

\* df[name] when the label is unique in the frame
Column(df, name) == ColumnAt(df, CHOOSE c \in ColPositions(df, name) : TRUE)

\* series.dropna()
DropNa(series) ==
    [dtype |-> series.dtype,
     cells |-> SelectIdx(series.cells,
                         [i \in 1..Len(series.cells) |-> ~isna(series.cells[i])], 1)]

\* series.nunique(): the number of distinct non-null values
nunique(series) == Cardinality(Range(DropNa(series).cells))

notna_all(series) == \A i \in 1..Len(series.cells) : ~isna(series.cells[i])
isna_any(series) == \E i \in 1..Len(series.cells) : isna(series.cells[i])

\* df.dropna(how='all'): drop the rows whose cells are all missing
DropEmptyRows(df) ==
    Frame(df.columns, df.dtypes,
          SelectIdx(df.rows,
                    [r \in 1..NRows(df) |->
                        \E c \in 1..NCols(df) : ~isna(df.rows[r][c])], 1))

\* df.dropna(axis=1, how='all'): drop the columns whose cells are all missing
DropEmptyCols(df) ==
    LET keep == [c \in 1..NCols(df) |->
                    \E r \in 1..NRows(df) : ~isna(df.rows[r][c])]
    IN  Frame(SelectIdx(df.columns, keep, 1),
              SelectIdx(df.dtypes, keep, 1),
              [r \in 1..NRows(df) |-> SelectIdx(df.rows[r], keep, 1)])

\* df.empty
FrameEmpty(df) == NRows(df) = 0 \/ NCols(df) = 0

(***************************************************************************)
(* sheets_data: a dict keyed by table name, in insertion order.  It is a   *)
(* sequence of [name, df]; assigning an existing key replaces the value    *)
(* and keeps the key's position.                                           *)
(***************************************************************************)
DictKeys(d) == [i \in 1..Len(d) |-> d[i].name]
DictHas(d, name) == \E i \in 1..Len(d) : d[i].name = name
DictGet(d, name) == d[CHOOSE i \in 1..Len(d) : d[i].name = name]
DictSet(d, name, entry) ==
    IF DictHas(d, name)
    THEN [i \in 1..Len(d) |-> IF d[i].name = name THEN entry ELSE d[i]]
    ELSE Append(d, entry)

(***************************************************************************)
(* ExcelAnalyzer.read_excel_file.  A workbook is the sequence of its       *)
(* sheets as pd.read_excel returns them: [name, columns, rows].            *)
(***************************************************************************)
SheetFrame(sheet) ==
    Frame(sheet.columns,
          [c \in 1..Len(sheet.columns) |->
              PandasDtype([r \in 1..Len(sheet.rows) |-> sheet.rows[r][c]])],
          sheet.rows)

\* lines 57-59: clean the labels, drop the empty rows, then the empty columns
NormalizeSheet(sheet) ==
    LET df == SheetFrame(sheet)
        renamed == Frame([c \in 1..NCols(df) |-> _clean_column_name(df.columns[c])],
                         df.dtypes, df.rows)
    IN  DropEmptyCols(DropEmptyRows(renamed))

RECURSIVE ReadSheets_KeepEmpty(_, _, _)
\* ReadSheets without the test of line 60: an empty frame is kept
ReadSheets_KeepEmpty(sheets, i, acc) ==
    IF i > Len(sheets) THEN acc
    ELSE ReadSheets_KeepEmpty(sheets, i + 1,
                              DictSet(acc, _clean_table_name(sheets[i].name),
                                      [name |-> _clean_table_name(sheets[i].name),
                                       df |-> NormalizeSheet(sheets[i])]))

RECURSIVE ReadSheets(_, _, _)
ReadSheets(sheets, i, acc) ==
    IF i > Len(sheets) THEN acc
    ELSE LET df == NormalizeSheet(sheets[i])
             name == _clean_table_name(sheets[i].name)
         IN  ReadSheets(sheets, i + 1,
                        IF FrameEmpty(df) THEN acc
                        ELSE DictSet(acc, name, [name |-> name, df |-> df]))

\* pd.read_excel (line 55) raises for the sheet: a sheet that holds no cell
\* grid, or whose part of the archive is damaged
ReadExcelRaises(sheet) == "unreadable" \in DOMAIN sheet

\* any exception inside read_excel_file becomes HTTPException(400)
ReadRaises(file) ==
    \/ ~file.parsable
    \/ \E i \in 1..Len(file.sheets) :
          \/ ReadExcelRaises(file.sheets[i])
          \/ CleanNameRaises(file.sheets[i].name)
          \/ \E c \in 1..Len(file.sheets[i].columns) :
                CleanNameRaises(file.sheets[i].columns[c])

read_excel_file(file) == ReadSheets(file.sheets, 1, <<>>)

(***************************************************************************)
(* Rendering of a value by series.astype(str): an int64 value n is "n", a  *)
(* float64 value n is "n.0", and in an object column each value is         *)
(* rendered by str().                                                      *)
(***************************************************************************)
RenderCell(cell, dtype) ==
    IF cell.k = "str" THEN cell.s
    ELSE IF dtype = "float64" THEN IntStr(cell.n) \o <<".", "0">>
    ELSE IntStr(cell.n)

\* set(series.astype(str).unique())
RenderedSet(series) ==
    {RenderCell(series.cells[i], series.dtype) : i \in 1..Len(series.cells)}

(***************************************************************************)
(* ExcelAnalyzer._detect_primary_key and _get_unique_columns.              *)
(***************************************************************************)
N_id == <<"i", "d">>
N__id == <<"_", "i", "d">>
N_name == <<"n", "a", "m", "e">>

\* df[col].nunique() == len(df) and df[col].notna().all()
IsFullyUnique(df, c) ==
    /\ nunique(ColumnAt(df, c)) = NRows(df)
    /\ notna_all(ColumnAt(df, c))

\* None is the empty name
NoneName == <<>>

\* _detect_primary_key without the first loop (lines 129-134): no
\* preference for a name containing 'id'
_detect_primary_key_FirstUnique(df) ==
    LET anyUnique == {c \in 1..NCols(df) : IsFullyUnique(df, c)}
    IN  IF anyUnique # {} THEN df.columns[CHOOSE c \in anyUnique : \A d \in anyUnique : c <= d]
        ELSE NoneName

_detect_primary_key(df) ==
    LET withId == {c \in 1..NCols(df) :
                      IsFullyUnique(df, c) /\ Contains(LowerStr(df.columns[c]), N_id)}
        anyUnique == {c \in 1..NCols(df) : IsFullyUnique(df, c)}
        first(S) == CHOOSE c \in S : \A d \in S : c <= d
    IN  IF withId # {} THEN df.columns[first(withId)]
        ELSE IF anyUnique # {} THEN df.columns[first(anyUnique)]
        ELSE NoneName

\* _get_unique_columns without the test of line 147: every column
_get_unique_columns_All(df) == [c \in 1..NCols(df) |-> c]

\* the unique columns of df, in column order (as positions)
_get_unique_columns(df) ==
    SelectIdx([c \in 1..NCols(df) |-> c],
              [c \in 1..NCols(df) |-> IsFullyUnique(df, c)], 1)

(***************************************************************************)
(* ExcelAnalyzer._names_suggest_relationship.                              *)
(***************************************************************************)
_names_suggest_relationship(col1, col2, target_table) ==
    LET col1_lower == LowerStr(col1)
        col2_lower == LowerStr(col2)
        target_lower == LowerStr(target_table)
    IN  \/ col1_lower = target_lower \o N__id
        \/ col1_lower = target_lower \o N_id
        \/ EndsWith(col1_lower, N__id) /\ Contains(col1_lower, target_lower)
        \/ col2_lower = N_id /\ Contains(col1_lower, target_lower)
        \/ col1_lower = col2_lower /\ EndsWith(col1_lower, N__id)
        \/ col1_lower = col2_lower /\ Contains(col1_lower, N_name)

(***************************************************************************)
(* ExcelAnalyzer._check_potential_relationship.                            *)
(* overlap_percentage > 0.8 is 5 * |overlap| > 4 * |s1_unique|.            *)
(***************************************************************************)
\* OverlapAbove80 with the threshold itself accepted
OverlapAbove80_Inclusive(overlap, s1_unique) ==
    IF Cardinality(s1_unique) > 0
    THEN 5 * Cardinality(overlap) >= 4 * Cardinality(s1_unique)
    ELSE FALSE

OverlapAbove80(overlap, s1_unique) ==
    IF Cardinality(s1_unique) > 0
    THEN 5 * Cardinality(overlap) > 4 * Cardinality(s1_unique)
    ELSE FALSE

_check_potential_relationship(series1, series2, col1, col2, target_table) ==
    LET s1_clean == DropNa(series1)
        s2_clean == DropNa(series2)
        s1_unique == RenderedSet(s1_clean)
        s2_unique == RenderedSet(s2_clean)
        overlap == s1_unique \cap s2_unique
        all_values_exist == s1_unique \subseteq s2_unique
    IN  IF Len(s1_clean.cells) = 0 \/ Len(s2_clean.cells) = 0 THEN FALSE
        ELSE \/ all_values_exist
             \/ /\ OverlapAbove80(overlap, s1_unique)
                /\ _names_suggest_relationship(col1, col2, target_table)

(***************************************************************************)
(* ExcelAnalyzer._detect_foreign_keys: for every table (by position in     *)
(* sheets_data) the list of (col1, table2, col2) in the order the loops    *)
(* append them: table2, then col1, then the unique columns of table2.      *)
(***************************************************************************)
RECURSIVE FlatMap(_, _, _)
\* F(i) \o F(i+1) \o ... \o F(n)
FlatMap(F(_), i, n) == IF i > n THEN <<>> ELSE F(i) \o FlatMap(F, i + 1, n)

RelationshipsOf(sheets_data, i) ==
    LET df1 == sheets_data[i].df
        forTarget(j) ==
            IF i = j THEN <<>>
            ELSE LET df2 == sheets_data[j].df
                     table2 == sheets_data[j].name
                     uniq == _get_unique_columns(df2)
                     forCol2(c1, u) ==
                         IF _check_potential_relationship(
                                ColumnAt(df1, c1), ColumnAt(df2, uniq[u]),
                                df1.columns[c1], df2.columns[uniq[u]], table2)
                         THEN << [col |-> df1.columns[c1], ref_table |-> table2,
                                  ref_col |-> df2.columns[uniq[u]]] >>
                         ELSE <<>>
                     forCol1(c1) == FlatMap(LAMBDA u : forCol2(c1, u), 1, Len(uniq))
                 IN  FlatMap(forCol1, 1, NCols(df1))
    IN  FlatMap(forTarget, 1, Len(sheets_data))

_detect_foreign_keys(sheets_data) ==
    [i \in 1..Len(sheets_data) |-> RelationshipsOf(sheets_data, i)]

(***************************************************************************)
(* ExcelAnalyzer._infer_data_type: the SQL type and max_length (None is    *)
(* -1) of a series.                                                        *)
(***************************************************************************)
SetMax(S) == CHOOSE x \in S : \A y \in S : y <= x
SetMin(S) == CHOOSE x \in S : \A y \in S : x <= y
Min2(a, b) == IF a <= b THEN a ELSE b

\* _infer_data_type without the cap of 255 on the margin added to max_length
_infer_data_type_Uncapped(series) ==
    LET non_null_series == DropNa(series)
        vals == Range(non_null_series.cells)
        Leq(x, y) == High(x) < High(y) \/ (High(x) = High(y) /\ x.n <= y.n)
        AtLeast(x, c) == High(x) > 0 \/ (High(x) = 0 /\ x.n >= c)
        AtMost(x, c) == High(x) < 0 \/ (High(x) = 0 /\ x.n <= c)
        max_val == CHOOSE x \in vals : \A y \in vals : Leq(y, x)
        min_val == CHOOSE x \in vals : \A y \in vals : Leq(x, y)
        max_length == SetMax({Len(RenderCell(non_null_series.cells[i], series.dtype)) :
                                 i \in 1..Len(non_null_series.cells)})
    IN  IF Len(non_null_series.cells) = 0 THEN <<"TEXT", -1>>
        ELSE IF series.dtype = "int64"
        THEN IF AtLeast(min_val, -128) /\ AtMost(max_val, 127) THEN <<"TINYINT", -1>>
             ELSE IF AtLeast(min_val, -32768) /\ AtMost(max_val, 32767)
                  THEN <<"SMALLINT", -1>>
             ELSE IF AtLeast(min_val, -2147483647 - 1) /\ AtMost(max_val, 2147483647)
                  THEN <<"INT", -1>>
             ELSE <<"BIGINT", -1>>
        ELSE IF series.dtype = "float64" THEN <<"DECIMAL(10,2)", -1>>
        ELSE IF series.dtype = "datetime64" THEN <<"DATETIME", -1>>
        ELSE IF series.dtype = "bool" THEN <<"BOOLEAN", -1>>
        ELSE IF max_length <= 255 THEN <<"VARCHAR", max_length + 50>>
        ELSE <<"TEXT", -1>>

\* _infer_data_type with the limits of the integer types excluded from them
_infer_data_type_Exclusive(series) ==
    LET non_null_series == DropNa(series)
        vals == Range(non_null_series.cells)
        Leq(x, y) == High(x) < High(y) \/ (High(x) = High(y) /\ x.n <= y.n)
        Above(x, c) == High(x) > 0 \/ (High(x) = 0 /\ x.n > c)
        Below(x, c) == High(x) < 0 \/ (High(x) = 0 /\ x.n < c)
        max_val == CHOOSE x \in vals : \A y \in vals : Leq(y, x)
        min_val == CHOOSE x \in vals : \A y \in vals : Leq(x, y)
        max_length == SetMax({Len(RenderCell(non_null_series.cells[i], series.dtype)) :
                                 i \in 1..Len(non_null_series.cells)})
    IN  IF Len(non_null_series.cells) = 0 THEN <<"TEXT", -1>>
        ELSE IF series.dtype = "int64"
        THEN IF Above(min_val, -128) /\ Below(max_val, 127) THEN <<"TINYINT", -1>>
             ELSE IF Above(min_val, -32768) /\ Below(max_val, 32767)
                  THEN <<"SMALLINT", -1>>
             ELSE IF Above(min_val, -2147483647 - 1) /\ Below(max_val, 2147483647)
                  THEN <<"INT", -1>>
             ELSE <<"BIGINT", -1>>
        ELSE IF series.dtype = "float64" THEN <<"DECIMAL(10,2)", -1>>
        ELSE IF series.dtype = "datetime64" THEN <<"DATETIME", -1>>
        ELSE IF series.dtype = "bool" THEN <<"BOOLEAN", -1>>
        ELSE IF max_length <= 255 THEN <<"VARCHAR", Min2(max_length + 50, 255)>>
        ELSE <<"TEXT", -1>>

_infer_data_type(series) ==
    LET non_null_series == DropNa(series)
        vals == Range(non_null_series.cells)
        \* x <= y on the values of two integer cells
        Leq(x, y) == High(x) < High(y) \/ (High(x) = High(y) /\ x.n <= y.n)
        \* the value of an integer cell against a 32-bit constant
        AtLeast(x, c) == High(x) > 0 \/ (High(x) = 0 /\ x.n >= c)
        AtMost(x, c) == High(x) < 0 \/ (High(x) = 0 /\ x.n <= c)
        max_val == CHOOSE x \in vals : \A y \in vals : Leq(y, x)
        min_val == CHOOSE x \in vals : \A y \in vals : Leq(x, y)
        max_length == SetMax({Len(RenderCell(non_null_series.cells[i], series.dtype)) :
                                 i \in 1..Len(non_null_series.cells)})
    IN  IF Len(non_null_series.cells) = 0 THEN <<"TEXT", -1>>
        ELSE IF series.dtype = "int64"
        THEN IF AtLeast(min_val, -128) /\ AtMost(max_val, 127) THEN <<"TINYINT", -1>>
             ELSE IF AtLeast(min_val, -32768) /\ AtMost(max_val, 32767)
                  THEN <<"SMALLINT", -1>>
             ELSE IF AtLeast(min_val, -2147483647 - 1) /\ AtMost(max_val, 2147483647)
                  THEN <<"INT", -1>>
             ELSE <<"BIGINT", -1>>
        ELSE IF series.dtype = "float64" THEN <<"DECIMAL(10,2)", -1>>
        ELSE IF series.dtype = "datetime64" THEN <<"DATETIME", -1>>
        ELSE IF series.dtype = "bool" THEN <<"BOOLEAN", -1>>
        ELSE IF max_length <= 255 THEN <<"VARCHAR", Min2(max_length + 50, 255)>>
        ELSE <<"TEXT", -1>>

(***************************************************************************)
(* ExcelAnalyzer.analyze_structure: table_info, in sheets_data order.      *)
(***************************************************************************)
\* FirstRelationship without the break: the last relationship recorded for
\* the column wins
FirstRelationship_Last(rels, col_name) ==
    LET hits == {r \in 1..Len(rels) : rels[r].col = col_name}
    IN  IF hits = {} THEN [found |-> FALSE, ref_table |-> NoneName, ref_col |-> NoneName]
        ELSE LET r == CHOOSE x \in hits : \A y \in hits : y <= x
             IN  [found |-> TRUE, ref_table |-> rels[r].ref_table,
                  ref_col |-> rels[r].ref_col]

\* the first relationship recorded for column `col_name` (lines 274-280)
FirstRelationship(rels, col_name) ==
    LET hits == {r \in 1..Len(rels) : rels[r].col = col_name}
    IN  IF hits = {} THEN [found |-> FALSE, ref_table |-> NoneName, ref_col |-> NoneName]
        ELSE LET r == CHOOSE x \in hits : \A y \in hits : x <= y
             IN  [found |-> TRUE, ref_table |-> rels[r].ref_table,
                  ref_col |-> rels[r].ref_col]

\* ColumnInfoOf with is_primary_key set for every fully unique column once
\* the table has a primary key
ColumnInfoOf_EveryUnique(df, c, primary_key, rels) ==
    LET col_name == df.columns[c]
        typ == _infer_data_type(ColumnAt(df, c))
        fk == FirstRelationship(rels, col_name)
    IN  [name |-> col_name,
         data_type |-> typ[1],
         is_nullable |-> isna_any(ColumnAt(df, c)),
         is_primary_key |-> (primary_key # NoneName /\ IsFullyUnique(df, c)),
         is_foreign_key |-> fk.found,
         references_table |-> fk.ref_table,
         references_column |-> fk.ref_col,
         max_length |-> typ[2]]

ColumnInfoOf(df, c, primary_key, rels) ==
    LET col_name == df.columns[c]
        typ == _infer_data_type(ColumnAt(df, c))
        fk == FirstRelationship(rels, col_name)
    IN  [name |-> col_name,
         data_type |-> typ[1],
         is_nullable |-> isna_any(ColumnAt(df, c)),
         is_primary_key |-> (col_name = primary_key),
         is_foreign_key |-> fk.found,
         references_table |-> fk.ref_table,
         references_column |-> fk.ref_col,
         max_length |-> typ[2]]

HasDuplicateLabels(df) ==
    \E c, d \in 1..NCols(df) : c # d /\ df.columns[c] = df.columns[d]

\* analyze_structure raises ValueError when sheets_data is empty; with a
\* duplicated column label df[col] is a frame and the uniqueness test raises
AnalyzeRaises(sheets_data) ==
    \/ sheets_data = <<>>
    \/ \E i \in 1..Len(sheets_data) : HasDuplicateLabels(sheets_data[i].df)

analyze_structure(sheets_data) ==
    LET relationships == _detect_foreign_keys(sheets_data)
    IN  [i \in 1..Len(sheets_data) |->
            LET df == sheets_data[i].df
                primary_key == _detect_primary_key(df)
            IN  [name |-> sheets_data[i].name,
                 columns |-> [c \in 1..NCols(df) |->
                                 ColumnInfoOf(df, c, primary_key, relationships[i])],
                 primary_key |-> primary_key]]

(***************************************************************************)
(* MariaDBManager: the statements it generates.  A statement is a record   *)
(* [kind, table, column, ref_table, ref_column, key, columns]:             *)
(*   create: CREATE TABLE IF NOT EXISTS `table` (columns)                  *)
(*   unique: ALTER TABLE `table` ADD UNIQUE KEY `key` (`column`)           *)
(*   fk:     ALTER TABLE `table` ADD CONSTRAINT `key` FOREIGN KEY          *)
(*           (`column`) REFERENCES `ref_table`(`ref_column`)               *)
(***************************************************************************)
N_unique_ == <<"u", "n", "i", "q", "u", "e", "_">>
N_fk_ == <<"f", "k", "_">>

TableInfoHas(table_info, name) == \E i \in 1..Len(table_info) : table_info[i].name = name
\* table_info.get(name)
TableInfoGet(table_info, name) ==
    table_info[CHOOSE i \in 1..Len(table_info) : table_info[i].name = name]

_generate_create_table_sql(info) ==
    [kind |-> "create", table |-> info.name, column |-> NoneName,
     ref_table |-> NoneName, ref_column |-> NoneName, key |-> NoneName,
     columns |-> info.columns]

\* the statement of line 370 for the reference of column `col`
UniqueStatement(col) ==
    [kind |-> "unique", table |-> col.references_table,
     column |-> col.references_column,
     ref_table |-> NoneName, ref_column |-> NoneName,
     key |-> N_unique_ \o col.references_table \o <<"_">> \o col.references_column,
     columns |-> <<>>]

\* NeedsUnique with the primary-key test made on the referencing column
\* instead of the referenced one
NeedsUnique_SourcePk(table_info, col) ==
    /\ col.is_foreign_key
    /\ col.references_table # NoneName
    /\ col.references_column # NoneName
    /\ TableInfoHas(table_info, col.references_table)
    /\ ~col.is_primary_key

\* lines 361-366: the column is a foreign key whose target exists in
\* table_info and is not that table's primary key
NeedsUnique(table_info, col) ==
    /\ col.is_foreign_key
    /\ col.references_table # NoneName
    /\ col.references_column # NoneName
    /\ TableInfoHas(table_info, col.references_table)
    /\ \E r \in 1..Len(TableInfoGet(table_info, col.references_table).columns) :
          LET ref_col == TableInfoGet(table_info, col.references_table).columns[r]
          IN  ref_col.name = col.references_column /\ ~ref_col.is_primary_key

\* every column of every table, in the order the loops of lines 359-360 visit
AllColumns(table_info) ==
    FlatMap(LAMBDA i : table_info[i].columns, 1, Len(table_info))

RECURSIVE UniqueScan_NoDedup(_, _, _, _, _)
\* UniqueScan without the test of line 368: one statement per foreign key
UniqueScan_NoDedup(table_info, cols, i, referenced_columns, constraints) ==
    IF i > Len(cols) THEN constraints
    ELSE IF NeedsUnique(table_info, cols[i])
         THEN UniqueScan_NoDedup(table_info, cols, i + 1, referenced_columns,
                                 Append(constraints, UniqueStatement(cols[i])))
         ELSE UniqueScan_NoDedup(table_info, cols, i + 1, referenced_columns, constraints)

RECURSIVE UniqueScan(_, _, _, _, _)
\* the loop of lines 359-371 from column position i on, with the keys seen
UniqueScan(table_info, cols, i, referenced_columns, constraints) ==
    IF i > Len(cols) THEN constraints
    ELSE LET col == cols[i]
             key == col.references_table \o <<".">> \o col.references_column
         IN  IF NeedsUnique(table_info, col) /\ key \notin referenced_columns
             THEN UniqueScan(table_info, cols, i + 1, referenced_columns \cup {key},
                             Append(constraints, UniqueStatement(col)))
             ELSE UniqueScan(table_info, cols, i + 1, referenced_columns, constraints)

_generate_unique_constraints(table_info) ==
    UniqueScan(table_info, AllColumns(table_info), 1, {}, <<>>)

ForeignKeyStatement(info, col) ==
    [kind |-> "fk", table |-> info.name, column |-> col.name,
     ref_table |-> col.references_table, ref_column |-> col.references_column,
     key |-> N_fk_ \o info.name \o <<"_">> \o col.name,
     columns |-> <<>>]

_generate_foreign_key_sql(info) ==
    FlatMap(LAMBDA c :
                IF /\ info.columns[c].is_foreign_key
                   /\ info.columns[c].references_table # NoneName
                   /\ info.columns[c].references_column # NoneName
                THEN <<ForeignKeyStatement(info, info.columns[c])>>
                ELSE <<>>,
            1, Len(info.columns))

\* the foreign-key statements of all tables, in the order of lines 335-337
\* AllForeignKeyStatements without the foreign keys of a table that reference
\* a table analysed before it
AllForeignKeyStatements_Forward(table_info) ==
    LET all == FlatMap(LAMBDA i : _generate_foreign_key_sql(table_info[i]),
                       1, Len(table_info))
        Pos(name) == CHOOSE i \in 1..Len(table_info) : table_info[i].name = name
        Forward(st) == Pos(st.table) <= Pos(st.ref_table)
    IN  SelectSeq(all, Forward)

AllForeignKeyStatements(table_info) ==
    FlatMap(LAMBDA i : _generate_foreign_key_sql(table_info[i]), 1, Len(table_info))

(***************************************************************************)
(* The target store (the MariaDB database behind self.engine).             *)
(*   db.tables  dict (by name) of [name, columns, rows]; columns are the   *)
(*              ColumnInfo of the CREATE statement, rows the stored rows   *)
(*   db.uniques set of [table, key, column]                                *)
(*   db.fks     set of [key, table, column, ref_table, ref_column]         *)
(* A statement that the store must reject is "rejected"; any statement     *)
(* may also fail for a reason outside the model (connection lost, type     *)
(* or privilege error): "fault".  DDL takes effect at once (MariaDB        *)
(* commits implicitly around DDL).                                         *)
(***************************************************************************)
EmptyDb == [tables |-> <<>>, uniques |-> {}, fks |-> {}]

DbColumnNames(t) == [c \in 1..Len(t.columns) |-> t.columns[c].name]
DbHasColumn(t, name) == \E c \in 1..Len(t.columns) : t.columns[c].name = name
DbColumnPos(t, name) == CHOOSE c \in 1..Len(t.columns) : t.columns[c].name = name

\* the value a cell has once stored: the text of the number or the string
StoredValue(cell) == IF cell.k = "str" THEN cell.s ELSE IntStr(cell.n)

\* the non-null stored values of column `name` of table t, one per row
DbColumnValues(t, name) ==
    LET c == DbColumnPos(t, name)
        present == SelectIdx(t.rows, [r \in 1..Len(t.rows) |-> ~isna(t.rows[r][c])], 1)
    IN  [r \in 1..Len(present) |-> StoredValue(present[r][c])]

NoDuplicates(seq) == \A i, j \in 1..Len(seq) : i # j => seq[i] # seq[j]

\* the columns of t that carry a key: its primary key and its unique keys
DbKeyColumns(db, t) ==
    {t.columns[c].name : c \in {d \in 1..Len(t.columns) : t.columns[d].is_primary_key}}
        \cup {u.column : u \in {v \in db.uniques : v.table = t.name}}

\* CREATE TABLE IF NOT EXISTS: a no-op when the table exists
ApplyCreate(db, stmt) ==
    IF DictHas(db.tables, stmt.table) THEN db
    ELSE [db EXCEPT !.tables =
             Append(@, [name |-> stmt.table, columns |-> stmt.columns, rows |-> <<>>])]

UniqueRejected(db, stmt) ==
    \/ ~DictHas(db.tables, stmt.table)
    \/ LET t == DictGet(db.tables, stmt.table)
       IN  \/ ~DbHasColumn(t, stmt.column)
           \/ \E u \in db.uniques : u.table = stmt.table /\ u.key = stmt.key
           \/ /\ DbHasColumn(t, stmt.column)
              /\ ~NoDuplicates(DbColumnValues(t, stmt.column))

ApplyUnique(db, stmt) ==
    [db EXCEPT !.uniques =
        @ \cup {[table |-> stmt.table, key |-> stmt.key, column |-> stmt.column]}]

ForeignKeyRejected(db, stmt) ==
    \/ ~DictHas(db.tables, stmt.table)
    \/ ~DictHas(db.tables, stmt.ref_table)
    \/ \E f \in db.fks : f.key = stmt.key
    \/ /\ DictHas(db.tables, stmt.table)
       /\ DictHas(db.tables, stmt.ref_table)
       /\ LET t == DictGet(db.tables, stmt.table)
              rt == DictGet(db.tables, stmt.ref_table)
          IN  \/ ~DbHasColumn(t, stmt.column)
              \/ ~DbHasColumn(rt, stmt.ref_column)
              \/ stmt.ref_column \notin DbKeyColumns(db, rt)
              \/ /\ DbHasColumn(t, stmt.column)
                 /\ DbHasColumn(rt, stmt.ref_column)
                 /\ ~(Range(DbColumnValues(t, stmt.column))
                        \subseteq Range(DbColumnValues(rt, stmt.ref_column)))

ApplyForeignKey(db, stmt) ==
    [db EXCEPT !.fks =
        @ \cup {[key |-> stmt.key, table |-> stmt.table, column |-> stmt.column,
                 ref_table |-> stmt.ref_table, ref_column |-> stmt.ref_column]}]

(***************************************************************************)
(* df.to_sql(table_name, conn, if_exists='append', index=False,            *)
(* method='multi'): one multi-row INSERT of the frame's rows.              *)
(***************************************************************************)
\* the frame's rows laid out on the table's columns (an absent column is NULL)
RowsForTable(t, df) ==
    [r \in 1..NRows(df) |->
        [c \in 1..Len(t.columns) |->
            IF ColPositions(df, t.columns[c].name) = {} THEN NullCell
            ELSE Column(df, t.columns[c].name).cells[r]]]

\* the table as it would be with the rows appended
WithRows(t, df) == [t EXCEPT !.rows = @ \o RowsForTable(t, df)]

InsertRejected(db, table_name, df) ==
    /\ DictHas(db.tables, table_name)
    /\ LET t == DictGet(db.tables, table_name)
           after == WithRows(t, df)
       IN  \* Unknown column
           \/ \E c \in 1..NCols(df) : ~DbHasColumn(t, df.columns[c])
           \* NULL in a NOT NULL column
           \/ \E c \in 1..Len(t.columns) :
                 /\ ~t.columns[c].is_nullable
                 /\ ColPositions(df, t.columns[c].name) # {}
                 /\ isna_any(Column(df, t.columns[c].name))
           \* Duplicate entry for the primary key or a unique key
           \/ \E k \in DbKeyColumns(db, t) :
                 DbHasColumn(t, k) /\ ~NoDuplicates(DbColumnValues(after, k))
           \* a foreign key without its parent row
           \/ \E f \in db.fks :
                 /\ f.table = table_name
                 /\ DbHasColumn(t, f.column)
                 /\ DictHas(db.tables, f.ref_table)
                 /\ DbHasColumn(DictGet(db.tables, f.ref_table), f.ref_column)
                 /\ ~(Range(DbColumnValues(after, f.column)) \subseteq
                        Range(DbColumnValues(DictGet(db.tables, f.ref_table),
                                             f.ref_column)))

\* to_sql creates a missing table from the frame, then appends
ApplyInsert(db, table_name, df) ==
    LET base == IF DictHas(db.tables, table_name) THEN db.tables
                ELSE Append(db.tables,
                            [name |-> table_name,
                             columns |-> [c \in 1..NCols(df) |->
                                 [name |-> df.columns[c], data_type |-> "TEXT",
                                  is_nullable |-> TRUE, is_primary_key |-> FALSE,
                                  is_foreign_key |-> FALSE,
                                  references_table |-> NoneName,
                                  references_column |-> NoneName,
                                  max_length |-> -1]],
                             rows |-> <<>>])
    IN  [db EXCEPT !.tables =
            DictSet(base, table_name, WithRows(DictGet(base, table_name), df))]

(***************************************************************************)
(* The uploaded files the model draws from.  A file is                     *)
(* [filename_ok, parsable, sheets]; sheets are what pd.read_excel returns  *)
(* for each sheet of the workbook.                                         *)
(***************************************************************************)
N_s == <<"s">>
N_e == <<"e">>
N_k == <<"k">>

\* sheet names and column labels by position
SheetNameSeq == <<N_s, N_e, <<"t">>, <<"u">>>>
ColNameSeq == <<N_k, N_id, <<"v">>, <<"w">>>>

CellVals == {IntCell(v) : v \in 1..MaxVal}

\* the label rows of 1..MaxCols columns
ColSeqs == {SubSeq(ColNameSeq, 1, n) : n \in 1..MaxCols}

RowSeqs(ncols) == [1..MaxRows -> [1..ncols -> CellVals]]

SheetsNamed(name) ==
    UNION {{[name |-> name, columns |-> cs, rows |-> rs] : rs \in RowSeqs(Len(cs))} :
              cs \in ColSeqs}

RECURSIVE WorkbooksOf(_)
\* the workbooks of exactly n sheets
WorkbooksOf(n) ==
    IF n = 0 THEN {<<>>}
    ELSE {Append(w, sh) : w \in WorkbooksOf(n - 1), sh \in SheetsNamed(SheetNameSeq[n])}

\* the workbooks of 1..n sheets
WorkbooksUpTo(n) == UNION {WorkbooksOf(m) : m \in 1..n}

BadNameFile == [filename_ok |-> FALSE, parsable |-> TRUE, sheets |-> <<>>]
UnparsableFile == [filename_ok |-> TRUE, parsable |-> FALSE, sheets |-> <<>>]
\* the files a request can upload: workbooks of at most n sheets, a file
\* with another extension and a file that is no workbook
Files(n) ==
    {BadNameFile, UnparsableFile}
        \cup {[filename_ok |-> TRUE, parsable |-> TRUE, sheets |-> w] : w \in WorkbooksUpTo(n)}

(***************************************************************************)
(* The endpoints' answers.  `response` is <<>> while a request runs and    *)
(* <<r>> once it is answered: r.kind is "json" for the JSONResponse and    *)
(* "error" for the HTTPException.                                          *)
(***************************************************************************)
ColumnDetails(info) ==
    [c \in 1..Len(info.columns) |->
        [name |-> info.columns[c].name,
         type |-> info.columns[c].data_type,
         nullable |-> info.columns[c].is_nullable,
         primary_key |-> info.columns[c].is_primary_key,
         foreign_key |-> info.columns[c].is_foreign_key,
         references |-> IF info.columns[c].is_foreign_key
                        THEN info.columns[c].references_table \o <<".">>
                                \o info.columns[c].references_column
                        ELSE NoneName]]

\* insert_counts.get(table_name, 0)
CountGet(insert_counts, name) ==
    IF DictHas(insert_counts, name) THEN DictGet(insert_counts, name).count ELSE 0

TotalRows(insert_counts) ==
    SumSeq([i \in 1..Len(insert_counts) |-> insert_counts[i].count])

\* lines 480-510
UploadResponse(table_info, insert_counts) ==
    [kind |-> "json",
     content |->
        [status |-> "success",
         database_info |-> [tables_created |-> Len(table_info),
                            total_rows_inserted |-> TotalRows(insert_counts)],
         tables |-> [i \in 1..Len(table_info) |->
                        [name |-> table_info[i].name,
                         columns |-> Len(table_info[i].columns),
                         primary_key |-> table_info[i].primary_key,
                         rows_inserted |-> CountGet(insert_counts, table_info[i].name),
                         column_details |-> ColumnDetails(table_info[i])]]]]

\* lines 532-558
AnalyzeResponse(sheets_data, table_info) ==
    [kind |-> "json",
     content |->
        [status |-> "success",
         analysis |->
            [sheets_found |-> Len(sheets_data),
             tables |-> [i \in 1..Len(table_info) |->
                            [name |-> table_info[i].name,
                             row_count |-> NRows(DictGet(sheets_data, table_info[i].name).df),
                             column_count |-> Len(table_info[i].columns),
                             primary_key |-> table_info[i].primary_key,
                             columns |-> ColumnDetails(table_info[i])]]]]]

\* HTTPException(status_code, detail): the detail is a fixed prefix and
\* str(e) of the exception caught
HttpError(status_code, prefix, exc) ==
    [kind |-> "error", status_code |-> status_code, detail |-> <<prefix, exc>>]

(***************************************************************************)
(* State.                                                                  *)
(***************************************************************************)
VARIABLES
    pc,             \* where the current request is: "idle", "create_connect",
                    \* "create", "unique", "fk", "commit", "load_connect",
                    \* "load", "load_commit", "done"
    mode,           \* "none", "analyze" or "migrate": the endpoint serving
    file,           \* the uploaded file of the current request
    sheets_data,    \* ExcelAnalyzer.sheets_data
    table_info,     \* ExcelAnalyzer.table_info
    sql_statements, \* create_tables' list of emitted statements
    pending,        \* the statements of the phase being executed
    idx,            \* the loop position inside the phase
    insert_counts,  \* insert_data's insert_counts
    conn_open,      \* the connections (engine.connect()) currently held
    db,             \* the target store
    db_start,       \* the store as it was when the current request began
    log,            \* every statement the request executed, with its outcome
    response,       \* <<>> or <<the answer of the current request>>
    runs,           \* requests served or being served
    faults,         \* failures injected so far for reasons outside the model
    prev,           \* <<>> or <<[mode, file, ok] of the previous request>>
    fn_in,          \* the arguments of a function applied on its own (else <<>>)
    fn_out          \* <<>> or <<its result>>

vars == <<pc, mode, file, sheets_data, table_info, sql_statements, pending, idx,
          insert_counts, conn_open, db, db_start, log, response, runs, faults,
          prev, fn_in, fn_out>>

runvars == <<pc, mode, file, sheets_data, table_info, sql_statements, pending, idx,
             insert_counts, conn_open, db, db_start, log, response, runs, faults,
             prev>>

InitRun ==
    /\ pc = "idle"
    /\ mode = "none"
    /\ file = BadNameFile
    /\ sheets_data = <<>>
    /\ table_info = <<>>
    /\ sql_statements = <<>>
    /\ pending = <<>>
    /\ idx = 0
    /\ insert_counts = <<>>
    /\ conn_open = 0
    /\ db = EmptyDb
    /\ db_start = EmptyDb
    /\ log = <<>>
    /\ response = <<>>
    /\ runs = 0
    /\ faults = 0
    /\ prev = <<>>

Init ==
    /\ InitRun
    /\ fn_in = <<>>
    /\ fn_out = <<>>

Succeeded(resp) == resp # <<>> /\ resp[1].kind = "json"

\* a new request: the locals of the previous one are gone
\* after the first request the same file is uploaded again
Repeated(f) == runs > 0 => f = file

BeginRequest(m, f) ==
    /\ pc \in {"idle", "done"}
    /\ runs < MaxRuns
    /\ runs' = runs + 1
    /\ prev' = IF runs = 0 THEN <<>>
               ELSE <<[mode |-> mode, file |-> file, ok |-> Succeeded(response),
                       table_info |-> table_info]>>
    /\ mode' = m
    /\ file' = f
    /\ db_start' = db
    /\ log' = <<>>
    /\ sql_statements' = <<>>
    /\ pending' = <<>>
    /\ idx' = 0
    /\ insert_counts' = <<>>

\* the exception, if any, that reading and analysing file f ends with
PipelineError(f) ==
    IF ReadRaises(f) THEN "400: Error reading Excel file"
    ELSE IF AnalyzeRaises(read_excel_file(f)) THEN "No data to analyze"
    ELSE ""

\* AnalyzeExcel that also issues the CREATE TABLE of the first analysed sheet
AnalyzeExcel_Creating(f) ==
    /\ BeginRequest("analyze", f)
    /\ pc' = "done"
    /\ UNCHANGED <<conn_open, faults, fn_in, fn_out>>
    /\ IF ~f.filename_ok
       THEN /\ response' = <<HttpError(400, "File must be Excel format", "")>>
            /\ sheets_data' = <<>>
            /\ table_info' = <<>>
            /\ UNCHANGED db
       ELSE IF PipelineError(f) # ""
       THEN /\ response' = <<HttpError(500, "Error analyzing file", PipelineError(f))>>
            /\ sheets_data' = IF ReadRaises(f) THEN <<>> ELSE read_excel_file(f)
            /\ table_info' = <<>>
            /\ UNCHANGED db
       ELSE /\ sheets_data' = read_excel_file(f)
            /\ table_info' = analyze_structure(read_excel_file(f))
            /\ response' = <<AnalyzeResponse(read_excel_file(f),
                                             analyze_structure(read_excel_file(f)))>>
            /\ db' = ApplyCreate(db, _generate_create_table_sql(
                                         analyze_structure(read_excel_file(f))[1]))

\* AnalyzeExcel with one analyzer for all requests whose sheets_data is
\* updated, not replaced, by read_excel_file
AnalyzeExcel_SharedAnalyzer(f) ==
    LET RECURSIVE Update(_, _, _)
        Update(d, new, i) ==
            IF i > Len(new) THEN d
            ELSE Update(DictSet(d, new[i].name, new[i]), new, i + 1)
        merged == Update(sheets_data, read_excel_file(f), 1)
    IN  /\ BeginRequest("analyze", f)
        /\ pc' = "done"
        /\ UNCHANGED <<conn_open, db, faults, fn_in, fn_out>>
        /\ IF ~f.filename_ok
           THEN /\ response' = <<HttpError(400, "File must be Excel format", "")>>
                /\ sheets_data' = <<>>
                /\ table_info' = <<>>
           ELSE IF PipelineError(f) # ""
           THEN /\ response' = <<HttpError(500, "Error analyzing file", PipelineError(f))>>
                /\ sheets_data' = IF ReadRaises(f) THEN <<>> ELSE read_excel_file(f)
                /\ table_info' = <<>>
           ELSE /\ sheets_data' = merged
                /\ table_info' = analyze_structure(merged)
                /\ response' = <<AnalyzeResponse(merged, analyze_structure(merged))>>

(***************************************************************************)
(* analyze_excel (lines 517-562): the whole handler is one step; it has    *)
(* no MariaDBManager.                                                      *)
(***************************************************************************)
AnalyzeExcel(f) ==
    /\ BeginRequest("analyze", f)
    /\ pc' = "done"
    /\ UNCHANGED <<conn_open, db, faults, fn_in, fn_out>>
    /\ IF ~f.filename_ok
       THEN /\ response' = <<HttpError(400, "File must be Excel format", "")>>
            /\ sheets_data' = <<>>
            /\ table_info' = <<>>
       ELSE IF PipelineError(f) # ""
       THEN /\ response' = <<HttpError(500, "Error analyzing file", PipelineError(f))>>
            /\ sheets_data' = IF ReadRaises(f) THEN <<>> ELSE read_excel_file(f)
            /\ table_info' = <<>>
       ELSE /\ sheets_data' = read_excel_file(f)
            /\ table_info' = analyze_structure(read_excel_file(f))
            /\ response' = <<AnalyzeResponse(read_excel_file(f),
                                             analyze_structure(read_excel_file(f)))>>

(***************************************************************************)
(* upload_excel, lines 456-471: the file is read and analysed and the      *)
(* MariaDBManager is built (create_engine does not connect).               *)
(***************************************************************************)
UploadExcel(f) ==
    /\ BeginRequest("migrate", f)
    /\ UNCHANGED <<conn_open, db, faults, fn_in, fn_out>>
    /\ IF ~f.filename_ok
       THEN /\ response' = <<HttpError(400, "File must be Excel format", "")>>
            /\ sheets_data' = <<>>
            /\ table_info' = <<>>
            /\ pc' = "done"
       ELSE IF PipelineError(f) # ""
       THEN /\ response' = <<HttpError(500, "Error processing file", PipelineError(f))>>
            /\ sheets_data' = IF ReadRaises(f) THEN <<>> ELSE read_excel_file(f)
            /\ table_info' = <<>>
            /\ pc' = "done"
       ELSE /\ sheets_data' = read_excel_file(f)
            /\ table_info' = analyze_structure(read_excel_file(f))
            /\ response' = <<>>
            /\ pc' = "create_connect"

(***************************************************************************)
(* MariaDBManager.create_tables (lines 311-351), one step per statement.   *)
(***************************************************************************)
\* an exception leaves the `with` block (the connection is released) and
\* reaches upload_excel's handler (lines 512-514)
Raise(exc) ==
    /\ response' = <<HttpError(500, "Error processing file", exc)>>
    /\ pc' = "done"

\* a store interaction that is no SQL statement of the lists: "connect" and
\* "commit" of create_tables, "load_connect" and "load_commit" of insert_data
StoreEvent(kind) ==
    [kind |-> kind, table |-> NoneName, column |-> NoneName,
     ref_table |-> NoneName, ref_column |-> NoneName, key |-> NoneName,
     columns |-> <<>>]

Logged(stmt, ok) == Append(log, [stmt |-> stmt, outcome |-> IF ok THEN "ok" ELSE "fault"])

\* the outcomes the store can give a statement
Outcomes(rejected) == IF rejected THEN {"rejected"} ELSE {"ok", "fault"}

\* a failure for a reason outside the model is drawn from a bounded budget
Inject(failed) ==
    /\ failed => faults < MaxFaults
    /\ faults' = IF failed THEN faults + 1 ELSE faults

\* PhaseAfter with the foreign-key loop before the unique-constraint loop
PhaseAfter_FkFirst(phase, ti) ==
    IF phase = "create" /\ AllForeignKeyStatements(ti) # <<>> THEN "fk"
    ELSE IF phase \in {"create", "fk"} /\ _generate_unique_constraints(ti) # <<>> THEN "unique"
    ELSE "commit"

\* PhaseAfter that leaves the unique-constraint statements out
PhaseAfter_SkipUnique(phase, ti) ==
    IF phase = "create" /\ AllForeignKeyStatements(ti) # <<>> THEN "fk"
    ELSE "commit"

\* where create_tables goes once the statements of `phase` are exhausted
PhaseAfter(phase, ti) ==
    IF phase = "create" /\ _generate_unique_constraints(ti) # <<>> THEN "unique"
    ELSE IF phase \in {"create", "unique"} /\ AllForeignKeyStatements(ti) # <<>> THEN "fk"
    ELSE "commit"

PendingOf(phase, ti) ==
    IF phase = "create" THEN [i \in 1..Len(ti) |-> _generate_create_table_sql(ti[i])]
    ELSE IF phase = "unique" THEN _generate_unique_constraints(ti)
    ELSE IF phase = "fk" THEN AllForeignKeyStatements(ti)
    ELSE <<>>

\* advance the loop, or enter the next phase
Advance(phase) ==
    IF idx < Len(pending)
    THEN /\ idx' = idx + 1
         /\ pc' = phase
         /\ UNCHANGED pending
    ELSE /\ idx' = 1
         /\ pc' = PhaseAfter(phase, table_info)
         /\ pending' = PendingOf(PhaseAfter(phase, table_info), table_info)

\* line 316: with self.engine.connect() as conn
CreateConnect(ok) ==
    /\ pc = "create_connect"
    /\ UNCHANGED <<fn_in, fn_out>>
    /\ Inject(~ok)
    /\ log' = Logged(StoreEvent("connect"), ok)
    /\ UNCHANGED <<mode, file, sheets_data, table_info, sql_statements,
                   insert_counts, db, db_start, runs, prev>>
    /\ IF ok
       THEN /\ conn_open' = conn_open + 1
            /\ pc' = "create"
            /\ pending' = PendingOf("create", table_info)
            /\ idx' = 1
            /\ UNCHANGED response
       ELSE /\ Raise("connect")
            /\ UNCHANGED <<conn_open, pending, idx>>

\* ExecCreate with a failed CREATE logged and skipped like a failed constraint
ExecCreate_Recoverable(outcome) ==
    /\ pc = "create"
    /\ UNCHANGED <<fn_in, fn_out>>
    /\ Inject(outcome = "fault")
    /\ outcome \in Outcomes(FALSE)
    /\ sql_statements' = Append(sql_statements, pending[idx])
    /\ log' = Append(log, [stmt |-> pending[idx], outcome |-> outcome])
    /\ db' = IF outcome = "ok" THEN ApplyCreate(db, pending[idx]) ELSE db
    /\ Advance("create")
    /\ UNCHANGED <<mode, file, sheets_data, table_info, insert_counts,
                   conn_open, db_start, response, runs, prev>>

\* lines 318-322: the statement is recorded, then executed; a failure is fatal
ExecCreate(outcome) ==
    /\ pc = "create"
    /\ UNCHANGED <<fn_in, fn_out>>
    /\ Inject(outcome = "fault")
    /\ outcome \in Outcomes(FALSE)
    /\ sql_statements' = Append(sql_statements, pending[idx])
    /\ log' = Append(log, [stmt |-> pending[idx], outcome |-> outcome])
    /\ UNCHANGED <<mode, file, sheets_data, table_info, insert_counts,
                   db_start, runs, prev>>
    /\ IF outcome = "ok"
       THEN /\ db' = ApplyCreate(db, pending[idx])
            /\ Advance("create")
            /\ UNCHANGED <<conn_open, response>>
       ELSE /\ Raise("create")
            /\ conn_open' = conn_open - 1
            /\ UNCHANGED <<db, pending, idx>>

\* lines 325-332: a failure is logged and the loop goes on
ExecUnique(outcome) ==
    /\ pc = "unique"
    /\ UNCHANGED <<fn_in, fn_out>>
    /\ Inject(outcome = "fault")
    /\ outcome \in Outcomes(UniqueRejected(db, pending[idx]))
    /\ sql_statements' = Append(sql_statements, pending[idx])
    /\ log' = Append(log, [stmt |-> pending[idx], outcome |-> outcome])
    /\ db' = IF outcome = "ok" THEN ApplyUnique(db, pending[idx]) ELSE db
    /\ Advance("unique")
    /\ UNCHANGED <<mode, file, sheets_data, table_info, insert_counts,
                   conn_open, db_start, response, runs, prev>>

\* ExecForeignKey with the inner try/except missing: a failed statement
\* reaches the outer handler
ExecForeignKey_Fatal(outcome) ==
    /\ pc = "fk"
    /\ UNCHANGED <<fn_in, fn_out>>
    /\ Inject(outcome = "fault")
    /\ outcome \in Outcomes(ForeignKeyRejected(db, pending[idx]))
    /\ sql_statements' = Append(sql_statements, pending[idx])
    /\ log' = Append(log, [stmt |-> pending[idx], outcome |-> outcome])
    /\ UNCHANGED <<mode, file, sheets_data, table_info, insert_counts,
                   db_start, runs, prev>>
    /\ IF outcome = "ok"
       THEN /\ db' = ApplyForeignKey(db, pending[idx])
            /\ Advance("fk")
            /\ UNCHANGED <<conn_open, response>>
       ELSE /\ Raise("fk")
            /\ conn_open' = conn_open - 1
            /\ UNCHANGED <<db, pending, idx>>

\* lines 335-343: a failure is logged and the loop goes on
ExecForeignKey(outcome) ==
    /\ pc = "fk"
    /\ UNCHANGED <<fn_in, fn_out>>
    /\ Inject(outcome = "fault")
    /\ outcome \in Outcomes(ForeignKeyRejected(db, pending[idx]))
    /\ sql_statements' = Append(sql_statements, pending[idx])
    /\ log' = Append(log, [stmt |-> pending[idx], outcome |-> outcome])
    /\ db' = IF outcome = "ok" THEN ApplyForeignKey(db, pending[idx]) ELSE db
    /\ Advance("fk")
    /\ UNCHANGED <<mode, file, sheets_data, table_info, insert_counts,
                   conn_open, db_start, response, runs, prev>>

\* line 345: conn.commit(), then the `with` block releases the connection
CreateCommit(ok) ==
    /\ pc = "commit"
    /\ UNCHANGED <<fn_in, fn_out>>
    /\ Inject(~ok)
    /\ conn_open' = conn_open - 1
    /\ log' = Logged(StoreEvent("commit"), ok)
    /\ UNCHANGED <<mode, file, sheets_data, table_info, sql_statements, pending,
                   idx, insert_counts, db, db_start, runs, prev>>
    /\ IF ok
       THEN /\ pc' = "load_connect"
            /\ UNCHANGED response
       ELSE Raise("commit")

(***************************************************************************)
(* MariaDBManager.insert_data (lines 419-440), one step per table.         *)
(***************************************************************************)
\* the rows of every table as they were when the request began: what is
\* left when the inserts of the request are not committed
RollbackRows(d, d0) ==
    [d EXCEPT !.tables =
        [i \in 1..Len(d.tables) |->
            [d.tables[i] EXCEPT !.rows =
                IF DictHas(d0.tables, d.tables[i].name)
                THEN DictGet(d0.tables, d.tables[i].name).rows
                ELSE <<>>]]]

\* whether to_sql has committed the earlier tables when a later step raises
\* depends on the pandas / SQLAlchemy pair: either outcome can be produced
AfterLoadFailure(d, d0) == {d, RollbackRows(d, d0)}

\* line 424: with self.engine.connect() as conn
LoadConnect(ok) ==
    /\ pc = "load_connect"
    /\ UNCHANGED <<fn_in, fn_out>>
    /\ Inject(~ok)
    /\ log' = Logged(StoreEvent("load_connect"), ok)
    /\ UNCHANGED <<mode, file, sheets_data, table_info, sql_statements,
                   insert_counts, db, db_start, runs, prev>>
    /\ IF ok
       THEN /\ conn_open' = conn_open + 1
            /\ pc' = "load"
            /\ idx' = 1
            /\ pending' = <<>>
            /\ UNCHANGED response
       ELSE /\ Raise("connect")
            /\ UNCHANGED <<conn_open, pending, idx>>

InsertStatement(table_name) ==
    [kind |-> "insert", table |-> table_name, column |-> NoneName,
     ref_table |-> NoneName, ref_column |-> NoneName, key |-> NoneName,
     columns |-> <<>>]

\* InsertTable that keeps the connection when to_sql raises
InsertTable_Leaking(outcome) ==
    /\ pc = "load"
    /\ UNCHANGED <<fn_in, fn_out>>
    /\ Inject(outcome = "fault")
    /\ outcome \in Outcomes(InsertRejected(db, sheets_data[idx].name, sheets_data[idx].df))
    /\ log' = Append(log, [stmt |-> InsertStatement(sheets_data[idx].name),
                           outcome |-> outcome])
    /\ UNCHANGED <<mode, file, sheets_data, table_info, sql_statements, pending,
                   db_start, runs, prev>>
    /\ IF outcome = "ok"
       THEN /\ db' = ApplyInsert(db, sheets_data[idx].name, sheets_data[idx].df)
            /\ insert_counts' = DictSet(insert_counts, sheets_data[idx].name,
                                        [name |-> sheets_data[idx].name,
                                         count |-> NRows(sheets_data[idx].df)])
            /\ idx' = idx + 1
            /\ pc' = IF idx < Len(sheets_data) THEN "load" ELSE "load_commit"
            /\ UNCHANGED <<conn_open, response>>
       ELSE /\ db' \in AfterLoadFailure(db, db_start)
            /\ Raise("insert")
            /\ UNCHANGED <<conn_open, insert_counts, idx>>


\* lines 425-432
InsertTable(outcome) ==
    /\ pc = "load"
    /\ UNCHANGED <<fn_in, fn_out>>
    /\ Inject(outcome = "fault")
    /\ outcome \in Outcomes(InsertRejected(db, sheets_data[idx].name, sheets_data[idx].df))
    /\ log' = Append(log, [stmt |-> InsertStatement(sheets_data[idx].name),
                           outcome |-> outcome])
    /\ UNCHANGED <<mode, file, sheets_data, table_info, sql_statements, pending,
                   db_start, runs, prev>>
    /\ IF outcome = "ok"
       THEN /\ db' = ApplyInsert(db, sheets_data[idx].name, sheets_data[idx].df)
            /\ insert_counts' = DictSet(insert_counts, sheets_data[idx].name,
                                        [name |-> sheets_data[idx].name,
                                         count |-> NRows(sheets_data[idx].df)])
            /\ idx' = idx + 1
            /\ pc' = IF idx < Len(sheets_data) THEN "load" ELSE "load_commit"
            /\ UNCHANGED <<conn_open, response>>
       ELSE /\ db' \in AfterLoadFailure(db, db_start)
            /\ Raise("insert")
            /\ conn_open' = conn_open - 1
            /\ UNCHANGED <<insert_counts, idx>>

\* line 434 and upload_excel's lines 479-510
LoadCommit(ok) ==
    /\ pc = "load_commit"
    /\ UNCHANGED <<fn_in, fn_out>>
    /\ Inject(~ok)
    /\ conn_open' = conn_open - 1
    /\ pc' = "done"
    /\ log' = Logged(StoreEvent("load_commit"), ok)
    /\ UNCHANGED <<mode, file, sheets_data, table_info, sql_statements, pending,
                   idx, insert_counts, db_start, runs, prev>>
    /\ IF ok
       THEN /\ response' = <<UploadResponse(table_info, insert_counts)>>
            /\ UNCHANGED db
       ELSE /\ response' = <<HttpError(500, "Error processing file", "commit")>>
            /\ db' \in AfterLoadFailure(db, db_start)

(***************************************************************************)
(* The specification.                                                      *)
(***************************************************************************)
Next ==
    \/ \E f \in Files(MaxSheets) : Repeated(f) /\ AnalyzeExcel(f)
    \/ \E f \in Files(MaxSheets) : Repeated(f) /\ UploadExcel(f)
    \/ \E ok \in BOOLEAN : CreateConnect(ok)
    \/ \E o \in {"ok", "rejected", "fault"} : ExecCreate(o)
    \/ \E o \in {"ok", "rejected", "fault"} : ExecUnique(o)
    \/ \E o \in {"ok", "rejected", "fault"} : ExecForeignKey(o)
    \/ \E ok \in BOOLEAN : CreateCommit(ok)
    \/ \E ok \in BOOLEAN : LoadConnect(ok)
    \/ \E o \in {"ok", "rejected", "fault"} : InsertTable(o)
    \/ \E ok \in BOOLEAN : LoadCommit(ok)

Spec == Init /\ [][Next]_vars

\* a step of the request under way
RunStep ==
    \/ \E ok \in BOOLEAN : CreateConnect(ok)
    \/ \E o \in {"ok", "rejected", "fault"} : ExecCreate(o)
    \/ \E o \in {"ok", "rejected", "fault"} : ExecUnique(o)
    \/ \E o \in {"ok", "rejected", "fault"} : ExecForeignKey(o)
    \/ \E ok \in BOOLEAN : CreateCommit(ok)
    \/ \E ok \in BOOLEAN : LoadConnect(ok)
    \/ \E o \in {"ok", "rejected", "fault"} : InsertTable(o)
    \/ \E ok \in BOOLEAN : LoadCommit(ok)

\* the handler runs to its end: a request under way takes its next step
FairSpec == Spec /\ WF_vars(RunStep)

(***************************************************************************)
(* Analyze over workbooks with missing cells and with the column `id`      *)
(* before or after the column `k`.                                         *)
(***************************************************************************)
WideCellVals == {NullCell} \cup CellVals

WideColSeqs == {<<N_k>>, <<N_k, N_id>>, <<N_id, N_k>>}

WideSheets(name, colSeqs) ==
    UNION {{[name |-> name, columns |-> cs, rows |-> rs] :
               rs \in [1..MaxRows -> [1..Len(cs) -> WideCellVals]]} :
              cs \in colSeqs}

\* two sheets named n1 and n2, the wider one first or second
WideWorkbooks(n1, n2) ==
    {<<a, b>> : a \in WideSheets(n1, WideColSeqs), b \in WideSheets(n2, {<<N_k>>})}
        \cup
    {<<b, a>> : a \in WideSheets(n2, WideColSeqs), b \in WideSheets(n1, {<<N_k>>})}

WideFiles(n1, n2) ==
    {[filename_ok |-> TRUE, parsable |-> TRUE, sheets |-> w] : w \in WideWorkbooks(n1, n2)}

NextAnalyze == \E f \in WideFiles(N_s, N_e) : Repeated(f) /\ AnalyzeExcel(f)

SpecAnalyze == Init /\ [][NextAnalyze]_vars

(***************************************************************************)
(* _check_potential_relationship on its own, as _detect_foreign_keys calls *)
(* it (line 170): series1 is a column of a normalised table, so it has a   *)
(* non-null value; series2 is a unique column, so it has no null and no    *)
(* repeated value.                                                         *)
(***************************************************************************)
MaxRelVal == 6

RECURSIVE SeqOfSet(_)
\* the integers of S as cells, in increasing order
SeqOfSet(S) ==
    IF S = {} THEN <<>>
    ELSE <<IntCell(SetMin(S))>> \o SeqOfSet(S \ {SetMin(S)})

SeriesOf(cells) == [dtype |-> PandasDtype(cells), cells |-> cells]

RelSeries1 ==
    UNION {{SeriesOf(SeqOfSet(S)),
            SeriesOf(SeqOfSet(S) \o <<NullCell>>),
            SeriesOf(<<IntCell(SetMin(S))>> \o SeqOfSet(S))} :
              S \in (SUBSET (1..MaxRelVal)) \ {{}}}

RelSeries2 == {SeriesOf(SeqOfSet(1..m)) : m \in 1..MaxRelVal}

\* (col1, col2) for the target table "s": one pair for each pattern of the
\* naming heuristic, and pairs that match none
RelNames ==
    {<<<<"s", "_", "i", "d">>, N_k>>,
     <<<<"S", "_", "I", "D">>, N_k>>,
     <<<<"s", "i", "d">>, N_k>>,
     <<<<"x", "s", "_", "i", "d">>, N_k>>,
     <<<<"x", "s">>, N_id>>,
     <<<<"k", "_", "i", "d">>, <<"k", "_", "i", "d">>>>,
     <<N_name, N_name>>,
     <<N_k, N_k>>,
     <<<<"v">>, N_k>>}

RelInputs ==
    {[series1 |-> a, series2 |-> b, col1 |-> n[1], col2 |-> n[2], target_table |-> N_s] :
        a \in RelSeries1, b \in RelSeries2, n \in RelNames}

InitRel ==
    /\ InitRun
    /\ fn_in \in {<<x>> : x \in RelInputs}
    /\ fn_out = <<>>

CheckPotentialRelationship ==
    /\ fn_in # <<>>
    /\ fn_out = <<>>
    /\ fn_out' = <<_check_potential_relationship(fn_in[1].series1, fn_in[1].series2,
                                                 fn_in[1].col1, fn_in[1].col2,
                                                 fn_in[1].target_table)>>
    /\ UNCHANGED <<runvars, fn_in>>

NextRel == CheckPotentialRelationship

SpecRel == InitRel /\ [][NextRel]_vars

(***************************************************************************)
(* Migrate and Analyze over two-sheet workbooks with missing cells, among  *)
(* them sheets without any value.  The tables have one column, so no       *)
(* unique-constraint statement arises.                                     *)
(***************************************************************************)
SparseFiles ==
    {[filename_ok |-> TRUE, parsable |-> TRUE, sheets |-> <<a, b>>] :
        a \in WideSheets(N_s, {<<N_k>>}), b \in WideSheets(N_e, {<<N_k>>})}

NextSparse ==
    \/ \E f \in SparseFiles : Repeated(f) /\ AnalyzeExcel(f)
    \/ \E f \in SparseFiles : Repeated(f) /\ UploadExcel(f)
    \/ \E ok \in BOOLEAN : CreateConnect(ok)
    \/ \E o \in {"ok", "rejected", "fault"} : ExecCreate(o)
    \/ \E o \in {"ok", "rejected", "fault"} : ExecForeignKey(o)
    \/ \E ok \in BOOLEAN : CreateCommit(ok)
    \/ \E ok \in BOOLEAN : LoadConnect(ok)
    \/ \E o \in {"ok", "rejected", "fault"} : InsertTable(o)
    \/ \E ok \in BOOLEAN : LoadCommit(ok)

SpecSparse == Init /\ [][NextSparse]_vars

(***************************************************************************)
(* Analyze over one-sheet workbooks whose two column labels are distinct   *)
(* raw names (pd.read_excel never returns the same label twice).           *)
(***************************************************************************)
RawLabels ==
    {<<"k">>, <<"K">>, <<"k", "!">>, <<"k", "_">>, <<"k", " ">>, <<"i", "d">>}

LabelFiles ==
    {[filename_ok |-> TRUE, parsable |-> TRUE,
      sheets |-> <<[name |-> N_s, columns |-> <<p[1], p[2]>>, rows |-> rs]>>] :
        p \in {q \in RawLabels \X RawLabels : q[1] # q[2]}, rs \in RowSeqs(2)}

NextLabels == \E f \in LabelFiles : Repeated(f) /\ AnalyzeExcel(f)

SpecLabels == Init /\ [][NextLabels]_vars

(***************************************************************************)
(* _clean_table_name and _clean_column_name on their own, as               *)
(* read_excel_file calls them (lines 57 and 61).  The raw name is          *)
(* str(name), or NaNName for a column label that is NaN.  A sheet name has *)
(* at least one character, and pd.read_excel labels a column whose header  *)
(* cell is empty "Unnamed: N", so a raw name is never the empty string.    *)
(***************************************************************************)
MaxNameLen == 3

NameChars == {"a", "B", "2", "_", " ", "!"}

RawNames == UNION {[1..n -> NameChars] : n \in 1..MaxNameLen}

N_2024_Sales == <<"2", "0", "2", "4", " ", "S", "a", "l", "e", "s", "!">>

NameInputs ==
    {[kind |-> k, raw |-> r] : k \in {"sheet", "column"}, r \in RawNames}
        \cup {[kind |-> "sheet", raw |-> N_2024_Sales],
              [kind |-> "column", raw |-> N_2024_Sales],
              [kind |-> "column", raw |-> NaNName]}

InitNames ==
    /\ InitRun
    /\ fn_in \in {<<x>> : x \in NameInputs}
    /\ fn_out = <<>>

CleanName ==
    /\ fn_in # <<>>
    /\ fn_out = <<>>
    /\ fn_out' = <<IF fn_in[1].kind = "sheet" THEN _clean_table_name(fn_in[1].raw)
                   ELSE _clean_column_name(fn_in[1].raw)>>
    /\ UNCHANGED <<runvars, fn_in>>

NextNames == CleanName

SpecNames == InitNames /\ [][NextNames]_vars

(***************************************************************************)
(* Analyze over two-sheet workbooks whose sheet names differ in a special  *)
(* character or altogether, each sheet either one column k with missing    *)
(* cells or a sheet that pd.read_excel cannot read.                        *)
(***************************************************************************)
SheetFiles(names) ==
    LET Sheets(n) == WideSheets(n, {<<N_k>>}) \cup
                     {[name |-> n, columns |-> <<>>, rows |-> <<>>, unreadable |-> TRUE]}
        All == UNION {Sheets(n) : n \in names}
    IN  {[filename_ok |-> TRUE, parsable |-> TRUE, sheets |-> <<p[1], p[2]>>] :
            p \in {q \in All \X All : q[1].name # q[2].name}}

NextSheets ==
    \E f \in SheetFiles({<<"s", "!">>, <<"s", "-">>, N_e}) : Repeated(f) /\ AnalyzeExcel(f)

SpecSheets == Init /\ [][NextSheets]_vars

(***************************************************************************)
(* Requests that follow each other with different files: Analyze and       *)
(* Migrate over one-sheet workbooks, the sheet named s or e, with one      *)
(* column.  One table has no relationship, so no unique-constraint and no  *)
(* foreign-key statement arises.                                           *)
(***************************************************************************)
RunFiles(names) ==
    {[filename_ok |-> TRUE, parsable |-> TRUE,
      sheets |-> <<[name |-> p[1], columns |-> <<N_k>>, rows |-> p[2]]>>] :
        p \in names \X RowSeqs(1)}

NextRuns ==
    \/ \E f \in RunFiles({N_s, N_e}) : AnalyzeExcel(f)
    \/ \E f \in RunFiles({N_s, N_e}) : UploadExcel(f)
    \/ \E ok \in BOOLEAN : CreateConnect(ok)
    \/ \E o \in {"ok", "rejected", "fault"} : ExecCreate(o)
    \/ \E ok \in BOOLEAN : CreateCommit(ok)
    \/ \E ok \in BOOLEAN : LoadConnect(ok)
    \/ \E o \in {"ok", "rejected", "fault"} : InsertTable(o)
    \/ \E ok \in BOOLEAN : LoadCommit(ok)

SpecRuns == Init /\ [][NextRuns]_vars

(***************************************************************************)
(* _infer_data_type applied to one column: integer columns whose minimum   *)
(* and maximum lie on and next to the limits of the integer types, text    *)
(* columns whose longest value lies on and next to the limits of the       *)
(* bounded string type, each with and without a missing value.             *)
(***************************************************************************)
TypeSeries ==
    LET IntPoints ==
            {WideCell(-1, 2147483647), IntCell(-2147483647 - 1), IntCell(-32769),
             IntCell(-32768), IntCell(-129), IntCell(-128), IntCell(0), IntCell(127),
             IntCell(128), IntCell(32767), IntCell(32768), IntCell(2147483647),
             WideCell(1, -2147483647 - 1)}
        TextPoints == {StrCell([i \in 1..n |-> "a"]) : n \in {1, 205, 206, 255, 256}}
        Columns(S) ==
            UNION {{SeriesOf(<<a, b>>), SeriesOf(<<a, NullCell, b>>)} : a \in S, b \in S}
    IN  Columns(IntPoints) \cup Columns(TextPoints \cup {IntCell(128)})
            \cup {SeriesOf(<<NullCell, NullCell>>)}

InitType ==
    /\ InitRun
    /\ fn_in \in {<<x>> : x \in TypeSeries}
    /\ fn_out = <<>>

\* the data_type, max_length and is_nullable that analyze_structure records
\* for the column
InferDataType ==
    /\ fn_in # <<>>
    /\ fn_out = <<>>
    /\ fn_out' = <<[data_type |-> _infer_data_type(fn_in[1])[1],
                    max_length |-> _infer_data_type(fn_in[1])[2],
                    is_nullable |-> isna_any(fn_in[1])]>>
    /\ UNCHANGED <<runvars, fn_in>>

SpecType == InitType /\ [][InferDataType]_vars

(***************************************************************************)
(* Properties of the Migrate and Analyze requests.                         *)
(***************************************************************************)
Finished == pc = "done" /\ response # <<>>

FailedIn(kinds) ==
    {i \in 1..Len(log) : log[i].stmt.kind \in kinds /\ log[i].outcome # "ok"}

ConstraintFailed == FailedIn({"unique", "fk"}) # {}

\* the rows this request has added to the store are none
NoRowsAdded == RollbackRows(db, db_start) = db

IssuedBefore(i, kind, table, column) ==
    \E j \in 1..(i - 1) :
        /\ sql_statements[j].kind = kind
        /\ sql_statements[j].table = table
        /\ sql_statements[j].column = column

\* C1: a foreign-key statement is only ever issued after the CREATE TABLE of
\* the table it references and, when the referenced column is not that
\* table's primary key, after the unique-constraint statement on that column.
C1_DdlOrder ==
    \A i \in 1..Len(sql_statements) :
        sql_statements[i].kind = "fk" =>
            LET fk == sql_statements[i] IN
            /\ IssuedBefore(i, "create", fk.ref_table, NoneName)
            /\ TableInfoGet(table_info, fk.ref_table).primary_key # fk.ref_column
                   => IssuedBefore(i, "unique", fk.ref_table, fk.ref_column)

C1_Witness ==
    \E i \in 1..Len(sql_statements) :
        /\ sql_statements[i].kind = "fk"
        /\ TableInfoGet(table_info, sql_statements[i].ref_table).primary_key
               # sql_statements[i].ref_column
        /\ IssuedBefore(i, "unique", sql_statements[i].ref_table,
                        sql_statements[i].ref_column)

\* C2: a CREATE TABLE that fails ends the run: it is the last thing the run
\* does to the store, the response is an error, no unique or foreign-key
\* statement is issued and no row is loaded.
C2_CreateFailureFatal ==
    \A i \in FailedIn({"create"}) :
        /\ i = Len(log)
        /\ Finished
        /\ ~Succeeded(response)
        /\ \A j \in 1..Len(sql_statements) : sql_statements[j].kind = "create"
        /\ insert_counts = <<>>
        /\ NoRowsAdded

C2_Witness ==
    /\ FailedIn({"create"}) # {}
    /\ Len(log) > 2
    /\ AllForeignKeyStatements(table_info) # <<>>
    /\ Finished

TableNames(d) == {d.tables[i].name : i \in 1..Len(d.tables)}

\* C3: when a Migrate request that analysed at least one table has ended,
\* either every table exists and the request succeeded, or the store has the
\* tables and the rows it had before the request.
C3_AllOrNothing ==
    (Finished /\ mode = "migrate" /\ table_info # <<>>) =>
        \/ /\ Succeeded(response)
           /\ \A i \in 1..Len(table_info) : table_info[i].name \in TableNames(db)
        \/ /\ TableNames(db) = TableNames(db_start)
           /\ NoRowsAdded

ExpectedStatements(ti) ==
    PendingOf("create", ti) \o PendingOf("unique", ti) \o PendingOf("fk", ti)

\* C4: a unique-constraint or foreign-key statement that fails does not end
\* the run: no error response follows from it, every remaining statement is
\* still issued, and the run goes on to the commit and the data load unless a
\* later, different step fails.
C4_ConstraintFailureRecoverable ==
    ConstraintFailed =>
        /\ log[Len(log)].stmt.kind \in {"unique", "fk"}
               => pc \in {"unique", "fk", "commit"} /\ response = <<>>
        /\ pc \notin {"unique", "fk"}
               => sql_statements = ExpectedStatements(table_info)
        /\ Finished
               => \/ Succeeded(response)
                  \/ /\ log[Len(log)].stmt.kind
                            \in {"commit", "load_connect", "insert", "load_commit"}
                     /\ log[Len(log)].outcome # "ok"

C4_Witness ==
    /\ ConstraintFailed
    /\ Succeeded(response)
    /\ insert_counts # <<>>

ReportedSkipped(resp) ==
    IF "skipped_constraints" \in DOMAIN resp.content.database_info
    THEN resp.content.database_info.skipped_constraints
    ELSE 0

\* C5: the success response of a Migrate request reports a positive number
\* of skipped constraints exactly when a unique-constraint or foreign-key
\* statement of the run failed.
C5_SkippedReported ==
    (Finished /\ mode = "migrate" /\ Succeeded(response)) =>
        (ReportedSkipped(response[1]) > 0 <=> ConstraintFailed)

ReportsRowsInserted(resp, n) ==
    /\ "rows_inserted" \in DOMAIN resp
    /\ resp.rows_inserted = n

\* C6: when the data load fails, the error response carries the number of
\* rows inserted before the failure.
C6_LoadFailureReportsRows ==
    (Finished /\ FailedIn({"insert", "load_commit"}) # {}) =>
        ReportsRowsInserted(response[1], TotalRows(insert_counts))

IsRerun ==
    /\ mode = "migrate"
    /\ prev # <<>>
    /\ prev[1].mode = "migrate"
    /\ prev[1].ok
    /\ prev[1].file = file

NoFault == \A i \in 1..Len(log) : log[i].outcome # "fault"

\* C7: a Migrate request that repeats a successful Migrate of the same
\* workbook, and meets no failure other than the store rejecting a statement,
\* runs no failing CREATE TABLE and ends successfully.
C7_RerunSucceeds ==
    (IsRerun /\ Finished /\ NoFault) =>
        /\ FailedIn({"create"}) = {}
        /\ Succeeded(response)

\* C8: an Analyze request never touches the store: no connection is opened,
\* no statement is executed, the tables and rows are those the store had
\* before the request, and its error responses come from reading and
\* analysing the file only.
C8_AnalyzeReadOnly ==
    mode = "analyze" =>
        /\ db = db_start
        /\ log = <<>>
        /\ sql_statements = <<>>
        /\ conn_open = 0
        /\ Finished
        /\ ~Succeeded(response) =>
               response[1].detail[1] \in {"File must be Excel format",
                                          "Error analyzing file"}

C8_Witness ==
    /\ mode = "analyze"
    /\ Succeeded(response)
    /\ Len(table_info) = 2
    /\ db.tables # <<>>
    /\ runs = 2

\* the string renderings of the non-null values of a series
Values(series) ==
    {RenderCell(series.cells[i], series.dtype) :
        i \in {j \in 1..Len(series.cells) : ~isna(series.cells[j])}}

\* what the relationship test is stated to answer for input x
StatedFlag(x) ==
    LET v1 == Values(x.series1)
        v2 == Values(x.series2)
        ratioAbove == v1 # {} /\ 5 * Cardinality(v1 \cap v2) > 4 * Cardinality(v1)
    IN  \/ v1 \subseteq v2
        \/ ratioAbove /\ _names_suggest_relationship(x.col1, x.col2, x.target_table)

\* C9: for a column c1 of one table and a unique column c2 of another, the
\* relationship test flags (c1 -> c2) exactly when the rendered non-null
\* values of c1 are all among those of c2, or more than 0.8 of the distinct
\* values of c1 are among those of c2 and the naming heuristic matches.
C9_RelationshipTest ==
    fn_out # <<>> => (fn_out[1] <=> StatedFlag(fn_in[1]))

C9_Witness ==
    /\ fn_out = <<TRUE>>
    /\ ~(Values(fn_in[1].series1) \subseteq Values(fn_in[1].series2))
    /\ Cardinality(Values(fn_in[1].series1)) = MaxRelVal

\* the non-null cells of a series
NonNull(series) == Range(DropNa(series).cells)

\* C10: when a table has a unique, non-null column and another table has a
\* column of the same name whose non-null values are all among the values of
\* the first, the schema marks the second column as a foreign key that
\* references exactly the first.
C10_SameNameForeignKey ==
    (mode = "analyze" /\ Succeeded(response)) =>
        \A i, j \in 1..Len(sheets_data) :
            i # j =>
                \A c \in 1..NCols(sheets_data[i].df), d \in 1..NCols(sheets_data[j].df) :
                    (/\ sheets_data[i].df.columns[c] = sheets_data[j].df.columns[d]
                     /\ IsFullyUnique(sheets_data[i].df, c)
                     /\ NonNull(ColumnAt(sheets_data[j].df, d))
                            \subseteq NonNull(ColumnAt(sheets_data[i].df, c)))
                    => /\ table_info[j].columns[d].is_foreign_key
                       /\ table_info[j].columns[d].references_table = sheets_data[i].name
                       /\ table_info[j].columns[d].references_column
                              = sheets_data[i].df.columns[c]

(***************************************************************************)
(* Properties of the inferred schema.                                      *)
(***************************************************************************)
Analysed == table_info # <<>>

\* the pairs (table position, column position) of unique columns of other
\* tables that satisfy the relationship test for column c of table i
SatisfyingPairs(i, c) ==
    {p \in (1..Len(sheets_data)) \X (1..MaxCols) :
        /\ p[1] # i
        /\ p[2] <= NCols(sheets_data[p[1]].df)
        /\ IsFullyUnique(sheets_data[p[1]].df, p[2])
        /\ _check_potential_relationship(
               ColumnAt(sheets_data[i].df, c), ColumnAt(sheets_data[p[1]].df, p[2]),
               sheets_data[i].df.columns[c], sheets_data[p[1]].df.columns[p[2]],
               sheets_data[p[1]].name)}

\* the first pair in table order, then column order
FirstPair(P) ==
    CHOOSE p \in P : \A q \in P : p[1] < q[1] \/ (p[1] = q[1] /\ p[2] <= q[2])

KeepsFirstPair(i, c) ==
    LET P == SatisfyingPairs(i, c)
        col == table_info[i].columns[c]
    IN  IF P = {}
        THEN /\ ~col.is_foreign_key
             /\ col.references_table = NoneName
             /\ col.references_column = NoneName
        ELSE /\ col.is_foreign_key
             /\ col.references_table = sheets_data[FirstPair(P)[1]].name
             /\ col.references_column
                    = sheets_data[FirstPair(P)[1]].df.columns[FirstPair(P)[2]]

\* the number of relationships _detect_foreign_keys records for column c of
\* table i
RecordedFor(i, c) ==
    LET rels == _detect_foreign_keys(sheets_data)[i]
    IN  Cardinality({r \in 1..Len(rels) : rels[r].col = sheets_data[i].df.columns[c]})

UniqueInTable(df, u) ==
    /\ Cardinality({df.rows[r][u] : r \in {x \in 1..NRows(df) : ~isna(df.rows[x][u])}})
           = NRows(df)
    /\ \A r \in 1..NRows(df) : ~isna(df.rows[r][u])

ForeignKeyColumns ==
    {p \in (1..Len(table_info)) \X (1..MaxCols) :
        /\ p[2] <= Len(table_info[p[1]].columns)
        /\ table_info[p[1]].columns[p[2]].is_foreign_key}

\* C12: every foreign key of the schema references a column that exists in
\* the referenced table, that table is another table than the source, and
\* the referenced column is unique there: as many distinct values as rows,
\* and no missing value.
C12_ForeignKeyTargetUnique ==
    Analysed =>
        \A p \in ForeignKeyColumns :
            LET col == table_info[p[1]].columns[p[2]]
            IN  /\ col.references_table # table_info[p[1]].name
                /\ \E j \in 1..Len(sheets_data) :
                      /\ j # p[1]
                      /\ sheets_data[j].name = col.references_table
                      /\ table_info[j].name = col.references_table
                      /\ \E u \in 1..NCols(sheets_data[j].df) :
                            /\ sheets_data[j].df.columns[u] = col.references_column
                            /\ table_info[j].columns[u].name = col.references_column
                            /\ UniqueInTable(sheets_data[j].df, u)

C12_Witness ==
    /\ Analysed
    /\ \E p \in ForeignKeyColumns :
          \E j \in 1..Len(sheets_data) :
              /\ sheets_data[j].name = table_info[p[1]].columns[p[2]].references_table
              /\ NRows(sheets_data[j].df) = MaxRows
              /\ \E u \in 1..NCols(sheets_data[j].df) : ~UniqueInTable(sheets_data[j].df, u)

(***************************************************************************)
(* Properties of the schema statements.                                    *)
(***************************************************************************)
\* the Unique phase of create_tables is over
UniquePhaseDone ==
    \/ pc \in {"fk", "commit", "load_connect", "load", "load_commit"}
    \/ pc = "done" /\ \E i \in 1..Len(log) : log[i].stmt.kind = "commit"

\* the (table, column) pairs some foreign key of the schema references
Targets ==
    {<<table_info[p[1]].columns[p[2]].references_table,
       table_info[p[1]].columns[p[2]].references_column>> : p \in ForeignKeyColumns}

NonPkTargets == {t \in Targets : TableInfoGet(table_info, t[1]).primary_key # t[2]}

UniqueEmitted(t) ==
    {i \in 1..Len(sql_statements) :
        /\ sql_statements[i].kind = "unique"
        /\ sql_statements[i].table = t[1]
        /\ sql_statements[i].column = t[2]}

\* C13: the Unique phase emits exactly one unique-constraint statement for
\* each (table, column) that some foreign key references and that is not the
\* table's primary key, and none for any other column.
C13_OneUniquePerTarget ==
    UniquePhaseDone =>
        /\ \A t \in NonPkTargets : Cardinality(UniqueEmitted(t)) = 1
        /\ \A i \in 1..Len(sql_statements) :
              sql_statements[i].kind = "unique"
                  => <<sql_statements[i].table, sql_statements[i].column>> \in NonPkTargets

C13_Witness ==
    /\ UniquePhaseDone
    /\ \E t \in NonPkTargets :
          /\ Cardinality({p \in ForeignKeyColumns :
                 /\ table_info[p[1]].columns[p[2]].references_table = t[1]
                 /\ table_info[p[1]].columns[p[2]].references_column = t[2]}) >= 2
          /\ Cardinality(UniqueEmitted(t)) = 1
    /\ \E t \in Targets : t \notin NonPkTargets

\* the log positions of the constraint statements of the given kinds
Executed(kinds) == {i \in 1..Len(log) : log[i].stmt.kind \in kinds}

\* the table a constraint statement alters, and the table a foreign key
\* references, exist in the store
OnCreatedTables(i) ==
    /\ DictHas(db.tables, log[i].stmt.table)
    /\ log[i].stmt.kind = "fk" => DictHas(db.tables, log[i].stmt.ref_table)

\* the target of the foreign-key statement at log position i carries a key in
\* the store: it is the primary key or a unique key of its table
TargetUniqueInStore(i) ==
    /\ DictHas(db.tables, log[i].stmt.ref_table)
    /\ log[i].stmt.ref_column
           \in DbKeyColumns(db, DictGet(db.tables, log[i].stmt.ref_table))

\* C14 (as stated): no constraint statement is executed against a table that
\* has not been created, and no foreign-key statement is executed unless its
\* target column is the primary key or carries a unique key in the store.
C14_NoForeignKeyBeforeUnique ==
    /\ \A i \in Executed({"unique", "fk"}) : OnCreatedTables(i)
    /\ \A i \in Executed({"fk"}) : TargetUniqueInStore(i)

\* C14 (amended): no constraint statement is executed against a table that
\* has not been created; a foreign-key statement is executed only after the
\* unique-constraint statement of its target, when the target is not a
\* primary key, has been executed, whether that statement succeeded or not;
\* and a foreign-key statement succeeds only when its target carries a key
\* in the store.
C14_ForeignKeyAfterUniqueAttempt ==
    /\ \A i \in Executed({"unique", "fk"}) : OnCreatedTables(i)
    /\ \A i \in Executed({"fk"}) :
          /\ TableInfoGet(table_info, log[i].stmt.ref_table).primary_key
                 # log[i].stmt.ref_column
                 => \E j \in 1..(i - 1) :
                       /\ log[j].stmt.kind = "unique"
                       /\ log[j].stmt.table = log[i].stmt.ref_table
                       /\ log[j].stmt.column = log[i].stmt.ref_column
          /\ log[i].outcome = "ok" => TargetUniqueInStore(i)

C14_Witness ==
    \E i \in Executed({"fk"}) :
        /\ ~TargetUniqueInStore(i)
        /\ log[i].outcome = "rejected"
        /\ \E j \in 1..(i - 1) : log[j].stmt.kind = "unique" /\ log[j].outcome = "fault"

\* the columns of df that qualify as a primary key, and those among them
\* whose name contains 'id'
Qualifying(df) == {c \in 1..NCols(df) : UniqueInTable(df, c)}

QualifyingWithId(df) ==
    {c \in Qualifying(df) :
        \E k \in 1..(Len(df.columns[c]) - 1) :
            LowerStr(SubSeq(df.columns[c], k, k + 1)) = <<"i", "d">>}

Lowest(S) == CHOOSE c \in S : \A d \in S : c <= d

StatedPrimaryKey(df) ==
    IF QualifyingWithId(df) # {} THEN df.columns[Lowest(QualifyingWithId(df))]
    ELSE IF Qualifying(df) # {} THEN df.columns[Lowest(Qualifying(df))]
    ELSE NoneName

\* C15: the primary key of a table is the first fully unique column whose
\* name contains 'id', else the first fully unique column, else none; a
\* column with a missing or a repeated value is never the primary key.
C15_PrimaryKeyDetection ==
    Analysed =>
        \A i \in 1..Len(sheets_data) :
            /\ table_info[i].primary_key = StatedPrimaryKey(sheets_data[i].df)
            /\ \A c \in 1..NCols(sheets_data[i].df) :
                  sheets_data[i].df.columns[c] = table_info[i].primary_key
                      => UniqueInTable(sheets_data[i].df, c)

C15_Witness ==
    /\ Analysed
    /\ \E i \in 1..Len(sheets_data) :
          /\ Qualifying(sheets_data[i].df) = {1, 2}
          /\ table_info[i].primary_key = sheets_data[i].df.columns[2]
    /\ \E i \in 1..Len(sheets_data) :
          /\ Qualifying(sheets_data[i].df) = {}
          /\ table_info[i].primary_key = NoneName

PrimaryKeyColumns(columns) == {c \in 1..Len(columns) : columns[c].is_primary_key}

\* C16: in every TableInfo at most one column has is_primary_key, and a
\* column has it exactly when the table's primary_key names it; the CREATE
\* TABLE statement of the table declares those same columns.
C16_OnePrimaryKeyColumn ==
    /\ \A i \in 1..Len(table_info) :
          /\ Cardinality(PrimaryKeyColumns(table_info[i].columns)) <= 1
          /\ \A c \in 1..Len(table_info[i].columns) :
                table_info[i].columns[c].is_primary_key
                    <=> table_info[i].columns[c].name = table_info[i].primary_key
    /\ \A k \in 1..Len(sql_statements) :
          sql_statements[k].kind = "create"
              => /\ Cardinality(PrimaryKeyColumns(sql_statements[k].columns)) <= 1
                 /\ sql_statements[k].columns
                        = TableInfoGet(table_info, sql_statements[k].table).columns

C16_Witness ==
    \E k \in 1..Len(sql_statements) :
        /\ sql_statements[k].kind = "create"
        /\ Cardinality(PrimaryKeyColumns(sql_statements[k].columns)) = 1
        /\ \E i \in 1..Len(sheets_data) :
              /\ sheets_data[i].name = sql_statements[k].table
              /\ Qualifying(sheets_data[i].df) = {1, 2}

(***************************************************************************)
(* Properties of the cleaned names.                                        *)
(***************************************************************************)
LowerOf ==
    [c \in {"A","B","C","D","E","F","G","H","I","J","K","L","M",
            "N","O","P","Q","R","S","T","U","V","W","X","Y","Z"} |->
        CASE c = "A" -> "a" [] c = "B" -> "b" [] c = "C" -> "c" [] c = "D" -> "d"
          [] c = "E" -> "e" [] c = "F" -> "f" [] c = "G" -> "g" [] c = "H" -> "h"
          [] c = "I" -> "i" [] c = "J" -> "j" [] c = "K" -> "k" [] c = "L" -> "l"
          [] c = "M" -> "m" [] c = "N" -> "n" [] c = "O" -> "o" [] c = "P" -> "p"
          [] c = "Q" -> "q" [] c = "R" -> "r" [] c = "S" -> "s" [] c = "T" -> "t"
          [] c = "U" -> "u" [] c = "V" -> "v" [] c = "W" -> "w" [] c = "X" -> "x"
          [] c = "Y" -> "y" [] c = "Z" -> "z"]

SafeChars ==
    {"a","b","c","d","e","f","g","h","i","j","k","l","m","n","o","p","q","r",
     "s","t","u","v","w","x","y","z","0","1","2","3","4","5","6","7","8","9","_"}

Digits == {"0","1","2","3","4","5","6","7","8","9"}

\* the cleaned name as stated: every character outside [A-Za-z0-9_] becomes
\* '_', letters become lower-case, and a leading digit gets the prefix
StatedName(kind, raw) ==
    LET mapped == [i \in 1..Len(raw) |->
                      IF raw[i] \in DOMAIN LowerOf THEN LowerOf[raw[i]]
                      ELSE IF raw[i] \in SafeChars THEN raw[i]
                      ELSE "_"]
        prefix == IF kind = "sheet" THEN <<"t", "a", "b", "l", "e", "_">>
                  ELSE <<"c", "o", "l", "_">>
    IN  IF raw[1] \in Digits THEN prefix \o mapped ELSE mapped

Blank(raw) == raw = NaNName \/ \A i \in 1..Len(raw) : raw[i] = " "

\* C19: a column whose original name is missing or blank is renamed to the
\* fixed placeholder name.
C19_BlankNamePlaceholder ==
    (fn_out # <<>> /\ fn_in[1].kind = "column" /\ Blank(fn_in[1].raw))
        => fn_out[1] = <<"u","n","n","a","m","e","d","_","c","o","l","u","m","n">>

\* C17: after normalization the column names of every table are pairwise
\* distinct, whatever the original column names of the sheet were.
C17_DistinctColumnNames ==
    \A i \in 1..Len(sheets_data) :
        \A c, d \in 1..NCols(sheets_data[i].df) :
            c # d => sheets_data[i].df.columns[c] # sheets_data[i].df.columns[d]

(***************************************************************************)
(* Properties of sheets without data.                                      *)
(***************************************************************************)
\* the sheets of the uploaded file that have no row left once the all-empty
\* rows are dropped: every cell is missing
EmptySheets ==
    {i \in 1..Len(file.sheets) :
        \A r \in 1..Len(file.sheets[i].rows) :
            \A c \in 1..Len(file.sheets[i].columns) : isna(file.sheets[i].rows[r][c])}

\* table `name` is nowhere in the run: not in the tables read, not in the
\* schema, not referenced, not in a statement, not in the store
Absent(name) ==
    /\ \A i \in 1..Len(sheets_data) : sheets_data[i].name # name
    /\ \A i \in 1..Len(table_info) :
          /\ table_info[i].name # name
          /\ \A c \in 1..Len(table_info[i].columns) :
                table_info[i].columns[c].references_table # name
    /\ \A i \in 1..Len(sql_statements) :
          sql_statements[i].table # name /\ sql_statements[i].ref_table # name
    /\ \A i \in 1..Len(log) : log[i].stmt.table # name /\ log[i].stmt.ref_table # name
    /\ \A i \in 1..Len(insert_counts) : insert_counts[i].name # name
    /\ \A i \in 1..Len(db.tables) : db.tables[i].name # name

\* the request ended with an error of reading or analysing the file
ReadOrAnalysisError ==
    /\ Finished
    /\ ~Succeeded(response)
    /\ response[1].detail[2] \in {"400: Error reading Excel file", "No data to analyze"}

\* C20 (as stated): a sheet without data produces no table and is skipped
\* without an error: it is absent from the schema, from every relationship
\* and from every statement, and the request does not fail on reading or
\* analysing the file.
C20_EmptySheetSkipped ==
    mode # "none" =>
        \A i \in EmptySheets :
            /\ Absent(file.sheets[i].name)
            /\ ~ReadOrAnalysisError

\* C20 (amended): a sheet without data produces no table: it is absent from
\* the schema, from every relationship and from every statement.  Reading
\* the file raises no error for it, and the request does not fail on it as
\* long as another sheet has data; when no sheet has data, the request fails
\* with "No data to analyze".
C20_EmptySheetSkippedUnlessAll ==
    mode # "none" =>
        \A i \in EmptySheets :
            /\ Absent(file.sheets[i].name)
            /\ Len(sheets_data) = Len(file.sheets) - Cardinality(EmptySheets)
            /\ IF Cardinality(EmptySheets) < Len(file.sheets)
               THEN ~ReadOrAnalysisError
               ELSE /\ ReadOrAnalysisError
                    /\ response[1].detail[2] = "No data to analyze"

C20_Witness ==
    /\ mode = "migrate"
    /\ Succeeded(response)
    /\ Cardinality(EmptySheets) = 1
    /\ Len(db.tables) = 1
    /\ TotalRows(insert_counts) > 0

(***************************************************************************)
(* Properties of type inference.                                           *)
(***************************************************************************)
TypedColumn == fn_in[1].cells

NonNullCells == {TypedColumn[i] : i \in {j \in 1..Len(TypedColumn) : ~isna(TypedColumn[j])}}

\* the cell's value lies in the range of the t-th integer type
InRangeOf(c, t) ==
    CASE t = 1 -> High(c) = 0 /\ c.n \in (-128)..127
      [] t = 2 -> High(c) = 0 /\ c.n \in (-32768)..32767
      [] t = 3 -> High(c) = 0
      [] OTHER -> TRUE

SmallestCovering ==
    <<"TINYINT", "SMALLINT", "INT", "BIGINT">>[
        Lowest({t \in 1..4 : \A c \in NonNullCells : InRangeOf(c, t)})]

\* C21: an integer column is given the smallest of TINYINT [-128, 127],
\* SMALLINT [-32768, 32767], INT [-2147483648, 2147483647] and BIGINT whose
\* range holds both the column's minimum and its maximum; a value on a limit
\* still belongs to the smaller type.
C21_SmallestIntegerType ==
    (fn_out # <<>> /\ fn_in[1].dtype = "int64") =>
        fn_out[1].data_type = SmallestCovering

C21_Witness ==
    /\ fn_out # <<>>
    /\ TypedColumn = <<IntCell(-2147483647 - 1), WideCell(1, -2147483647 - 1)>>
    /\ fn_out[1].data_type = "BIGINT"

\* the number of characters of a value of a text column
LengthOf(c) == IF c.k = "str" THEN Len(c.s) ELSE Len(IntStr(c.n))

LongestLength == CHOOSE l \in {LengthOf(c) : c \in NonNullCells} :
                     \A c \in NonNullCells : LengthOf(c) <= l

\* C22: a text column whose longest value has L characters is given the
\* bounded string type with max_length = min(L + 50, 255) when L <= 255 and
\* the unbounded text type otherwise; a max_length is recorded only with the
\* bounded string type and lies in 1..255.
C22_TextLength ==
    fn_out # <<>> =>
        /\ (fn_in[1].dtype = "object" /\ NonNullCells # {}) =>
              IF LongestLength <= 255
              THEN /\ fn_out[1].data_type = "VARCHAR"
                   /\ fn_out[1].max_length =
                          (IF LongestLength + 50 < 255 THEN LongestLength + 50 ELSE 255)
              ELSE /\ fn_out[1].data_type = "TEXT"
                   /\ fn_out[1].max_length = -1
        /\ fn_out[1].max_length # -1 =>
              /\ fn_out[1].data_type = "VARCHAR"
              /\ fn_out[1].max_length \in 1..255

C22_Witness ==
    /\ fn_out # <<>>
    /\ fn_in[1].dtype = "object"
    /\ LongestLength = 206
    /\ fn_out[1].data_type = "VARCHAR"
    /\ fn_out[1].max_length = 255

(***************************************************************************)
(* Properties of reading the sheets of a workbook.                         *)
(***************************************************************************)
Unreadable == {i \in 1..Len(file.sheets) : ReadExcelRaises(file.sheets[i])}

\* the sheets that can be read and hold data
Surviving ==
    {i \in 1..Len(file.sheets) \ Unreadable : ~FrameEmpty(NormalizeSheet(file.sheets[i]))}

\* C23: when one sheet of the workbook cannot be read, that sheet alone is
\* skipped: every other sheet with data is in the result, and the request
\* fails, with "No data to analyze", only when no sheet survives.
C23_UnreadableSheetSkipped ==
    (pc = "done" /\ mode = "analyze" /\ file.parsable /\ Unreadable # {}) =>
        /\ Surviving # {} =>
              /\ Succeeded(response)
              /\ \A i \in Surviving :
                    TableInfoHas(table_info, _clean_table_name(file.sheets[i].name))
        /\ (~Succeeded(response) /\ response[1].detail[2] = "No data to analyze") =>
              Surviving = {}

\* C30: every sheet with data yields a table of its own: the tables are as
\* many as the sheets with data, and each table holds the rows of its sheet,
\* also when the names of two sheets clean to the same table name.
C30_OneTablePerSheet ==
    (pc = "done" /\ mode = "analyze" /\ file.filename_ok /\ file.parsable
        /\ Unreadable = {}) =>
        /\ Len(sheets_data) = Cardinality(Surviving)
        /\ \A i \in Surviving :
              /\ DictHas(sheets_data, _clean_table_name(file.sheets[i].name))
              /\ DictGet(sheets_data, _clean_table_name(file.sheets[i].name)).df =
                     NormalizeSheet(file.sheets[i])

(***************************************************************************)
(* Properties of the connections and of the order of the phases.           *)
(***************************************************************************)
\* C24: every connection a Migrate run acquires is released on every way out
\* of the phase that acquired it: no connection is held before a run, between
\* schema creation and load, or after the run, however the run ended, and
\* never more than one is held.
C24_ConnectionsReleased ==
    /\ conn_open \in {0, 1}
    /\ pc \in {"idle", "done", "create_connect", "load_connect"} => conn_open = 0
    /\ pc \in {"create", "unique", "fk", "commit", "load", "load_commit"} => conn_open = 1

C24_Witness ==
    /\ pc = "done"
    /\ mode = "migrate"
    /\ ~Succeeded(response)
    /\ log # <<>>
    /\ log[Len(log)].stmt.kind = "insert"
    /\ log[Len(log)].outcome # "ok"
    /\ conn_open = 0

PhaseOf(kind) ==
    CASE kind \in {"connect", "create"} -> 1
      [] kind = "unique" -> 2
      [] kind \in {"fk", "commit"} -> 3
      [] OTHER -> 4

\* the statements of the given kind attempted so far, in order
Attempted(kind) ==
    LET Pick(e) == e.stmt.kind = kind
        picked == SelectSeq(log, Pick)
    IN  [i \in 1..Len(picked) |-> picked[i].stmt]

Reached(kinds) == \E i \in 1..Len(log) : log[i].stmt.kind \in kinds

\* C26: a Migrate run goes through Create, Unique, Foreign key and Load in
\* this order and never back: every CREATE has been attempted before the
\* first unique-constraint statement, every unique-constraint statement
\* before the first foreign-key statement, and every schema statement before
\* the first insert.
C26_PhasesMonotone ==
    /\ \A i, j \in 1..Len(log) :
          i < j => PhaseOf(log[i].stmt.kind) <= PhaseOf(log[j].stmt.kind)
    /\ Reached({"unique", "fk", "commit", "load_connect", "insert"}) =>
          Attempted("create") = PendingOf("create", table_info)
    /\ Reached({"fk", "commit", "load_connect", "insert"}) =>
          Attempted("unique") = PendingOf("unique", table_info)
    /\ Reached({"commit", "load_connect", "insert"}) =>
          Attempted("fk") = PendingOf("fk", table_info)

C26_Witness ==
    /\ pc = "done"
    /\ Succeeded(response)
    /\ Reached({"unique"})
    /\ Reached({"fk"})
    /\ Len(Attempted("insert")) = 2

\* C27: the type is inferred from the values that are present: a column
\* whose present values are all integers is given an integer type, the
\* smallest that holds them, whether or not a value is missing, and the
\* missing values show in is_nullable alone.
C27_IntegerDespiteMissing ==
    (fn_out # <<>> /\ NonNullCells # {} /\ \A c \in NonNullCells : c.k = "int") =>
        /\ fn_out[1].data_type = SmallestCovering
        /\ fn_out[1].is_nullable = (\E i \in 1..Len(TypedColumn) : isna(TypedColumn[i]))

(***************************************************************************)
(* Properties of tables that reference each other.                         *)
(***************************************************************************)
\* the columns of table i that reference table j
ReferringColumns(i, j) ==
    {c \in 1..Len(table_info[i].columns) :
        /\ table_info[i].columns[c].is_foreign_key
        /\ table_info[i].columns[c].references_table = table_info[j].name}

\* the pairs of tables that reference each other
MutualPairs ==
    {p \in (1..Len(table_info)) \X (1..Len(table_info)) :
        /\ p[1] # p[2]
        /\ ReferringColumns(p[1], p[2]) # {}
        /\ ReferringColumns(p[2], p[1]) # {}}

\* the foreign-key statements issued for column c of table i
StatementsFor(i, c) ==
    {k \in 1..Len(sql_statements) :
        /\ sql_statements[k].kind = "fk"
        /\ sql_statements[k].table = table_info[i].name
        /\ sql_statements[k].column = table_info[i].columns[c].name}

MutualOrder ==
    \A p \in MutualPairs : \A c \in ReferringColumns(p[1], p[2]) :
        /\ \A k \in StatementsFor(p[1], c) :
              /\ IssuedBefore(k, "create", table_info[p[1]].name, NoneName)
              /\ IssuedBefore(k, "create", table_info[p[2]].name, NoneName)
        /\ Cardinality(StatementsFor(p[1], c)) <= 1
        /\ Reached({"commit", "load_connect", "insert"}) =>
              Cardinality(StatementsFor(p[1], c)) = 1

\* C28: when two tables reference each other, the Migrate run still comes to
\* its end, the CREATE of both tables is issued before the foreign-key
\* statement of either, and each reference, one in each direction, gets
\* exactly one foreign-key statement.
C28_MutualReferences ==
    /\ []MutualOrder
    /\ (mode = "migrate" /\ MutualPairs # {}) ~> (pc = "done")

C28_Witness ==
    /\ pc = "done"
    /\ mode = "migrate"
    /\ MutualPairs # {}
    /\ Cardinality({i \in 1..Len(log) : log[i].stmt.kind = "fk" /\ log[i].outcome = "ok"}) = 2

=============================================================================
